---- MODULE Spec2Model ----
(***************************************************************************)
(* Card-Scraper: the offer discovery and matching engine.                  *)
(*                                                                         *)
(*   SpecPrice  the price parser extractNumericPrice on price texts        *)
(*   SpecMatch  the criteria matcher findTheCard on offer lists            *)
(*   Spec       the acquisition ladder (scrapeCardInfo and its variants)   *)
(*              up to the error AddCard surfaces                           *)
(*                                                                         *)
(* A text is a sequence of one-character strings.  A float64 price is the  *)
(* decimal [n, k] = n / 10^k in lowest form: strconv.ParseFloat is         *)
(* correctly rounded, so on the short decimals of the model two parses are *)
(* equal floats exactly when they denote the same decimal.                 *)
(***************************************************************************)
EXTENDS Integers, Sequences, FiniteSets, TLC

VARIABLES
    priceText,   \* extractNumericPrice: the argument priceText
    wellFormed,  \* the price priceText was written from, or NotAPrice
    price,       \* extractNumericPrice(priceText)
    formatted,   \* fmt.Sprintf("%.2f", price)
    reparsed,    \* extractNumericPrice(formatted)
    pricePc,     \* "start" | "parsed" | "reparsed" | "idle"
    articleRows,       \* getInfos: the article-row elements of the page
    donnees,     \* findTheCard: the offer list, as getInfos returned it
    donnees2,    \* a permutation of donnees
    req,         \* AddCardRequest: Quality, Language, Edition
    result,      \* findTheCard(donnees, ...)
    result2,     \* findTheCard(donnees2, ...)
    matchPc,     \* "page" | "extracted" | "found" | "found2" | "idle"
    priceTable,  \* getInfos: a plain table of prices outside the article rows
    variant,     \* which scrapeCardInfo of the repository runs
    mode,        \* index of the browser profile in use
    attempt,     \* index of the next attempt under that profile
    connected,   \* the profiles whose browser answered
    attempts,    \* the attempts made so far: profile, load, hit
    failures,    \* the failure lines written to the log so far
    session,     \* the browser session in use, 0 when there is none
    live,        \* the browser sessions not yet cancelled
    opened,      \* how many browser sessions the call has made
    usedSession, \* the session of each attempt of attempts
    cancelled,   \* the context given to OnStartup has been cancelled
    startedAfterCancel, \* a step of the ladder began after that
    found,       \* the offer as findTheCard returned it
    card,        \* the offer whose price scrapeCardInfo reports
    info,        \* the ScrapedCardInfo filled after a hit
    enrichment,  \* how the steps after the hit went: nav, name, eval
    err,         \* the error scrapeCardInfo returns
    addErr,      \* the error AddCard returns
    waits,       \* per attempt, the seconds slept before it in scrapeWithRetries
    profileWaits, \* the seconds slept after each failed profile but the last
    ladderPc,    \* "connect" | "attempt" | "webview" | "scraped" | "done" | "blocked" | "idle"
    moreLoad,    \* getPage: the argument moreLoad
    steps,       \* the steps of the attempt that have ended, in order
    stepErrors,  \* the steps among them that failed
    selector,    \* how many consent selectors have been tried
    banner,      \* the one selector the consent banner matches, 0 for no banner
    consentExpired, \* the deadline of ctxTimeout has passed
    consentTried, \* the selectors whose Click ran before the deadline
    clickedSelector, \* the selector whose click closed the banner, 0 for none
    pageErr,     \* getPage returned an error
    pageOffer,   \* the offer launchLoop returns
    pagePc,      \* the step to come, "returned" or "idle"
    webTables,   \* extractOffersFromWebView: the rows of each table
    webDirect,   \* what extractPricesDirectly finds
    webVisible,  \* what extractAllVisiblePrices finds
    tableIdx,    \* the table the loop over tableSelectors is at
    ran,         \* the strategies that ran, with what each returned
    webOffers,   \* the local offers of extractOffersFromWebView
    webPc,       \* "tables" | "direct" | "visible" | "returned" | "idle"
    store,       \* the rows of the table cards, in id order
    nextId,      \* the id the next inserted row gets
    now,         \* the time of the clock
    op,          \* the last step made on the store: call, type, result
    cardsRead,   \* RescrapAllCards: the cards read at the start
    rIdx,        \* RescrapAllCards: the index of the loop over cardsRead
    inFlight,    \* RescrapAllCards: the scrapes that have not returned
    rescrapLog,  \* RescrapAllCards: the cards attempted, with the outcome
    stats,       \* RescrapAllCards: total, updated, errors
    rPc,         \* "none" | "loop" | "scraping" | "done" | "idle"
    fbOffers,    \* findBestOfferWithFallback: the argument offers
    fbResult,    \* the offer it returns, and the rung it logs
    fbPc,        \* "start" | "returned" | "idle"
    clearsAt,    \* waitForCloudflare: the first poll free of the challenge
    failsAt,     \* the first poll at which the title cannot be read
    polls,       \* the polls made
    cfSlept,     \* the seconds slept between polls
    cfResult,    \* "none" | "ok" | "error"
    cfPc,        \* "poll" | "returned" | "idle"
    scanPrices,  \* the amounts the page shows, in document order
    scanInRows,  \* the amounts are inside table rows
    directOffers,  \* what extractPricesDirectly returns
    visibleOffers, \* what extractAllVisiblePrices returns
    scanPc,      \* "direct" | "visible" | "returned" | "idle"
    context,     \* the text given to extractQualityFromContext and
                 \* extractLanguageFromContext
    qualityOut,  \* what extractQualityFromContext returns
    qualityAgain, \* what a second call on the same text returns
    languageOut, \* what extractLanguageFromContext returns
    languageAgain, \* what a second call on the same text returns
    inferPc,     \* "quality" | "quality2" | "language" | "language2" |
                 \* "returned" | "idle"
    gsPc,        \* GetStats: "none" | "wishlist" | "idle"
    gsFirst,     \* GetStats: count and value of the collection, as read
    gsChanged,   \* what was written between the two queries of GetStats:
                 \* "no" | "moved" | "other"
    gsOut,       \* the map GetStats returned last
    refresh,     \* UpdateCardPriceFixed: the card refreshed last, the request
                 \* it was scraped with and the offer selected
    calls        \* the AddCard calls in progress, by slot

priceVars == <<priceText, wellFormed, price, formatted, reparsed, pricePc>>
matchVars ==
    <<articleRows, priceTable, donnees, donnees2, result, result2, matchPc>>
ladderVars ==
    <<variant, mode, attempt, connected, attempts, failures, session, live,
      opened, usedSession, cancelled, startedAfterCancel, found, card, info,
      enrichment, err, addErr, waits, profileWaits, ladderPc>>
consentVars == <<banner, consentExpired, consentTried, clickedSelector>>
pageVars ==
    <<moreLoad, steps, stepErrors, selector, consentVars, pageErr, pageOffer,
      pagePc>>
webVars ==
    <<webTables, webDirect, webVisible, tableIdx, ran, webOffers, webPc>>
storeVars ==
    <<store, nextId, now, op, cardsRead, rIdx, inFlight, rescrapLog, stats,
      rPc>>
fallbackVars == <<fbOffers, fbResult, fbPc>>
cloudVars == <<clearsAt, failsAt, polls, cfSlept, cfResult, cfPc>>
scanVars == <<scanPrices, scanInRows, directOffers, visibleOffers, scanPc>>
inferVars ==
    <<context, qualityOut, qualityAgain, languageOut, languageAgain, inferPc>>
getStatsVars == <<gsPc, gsFirst, gsChanged, gsOut>>
callVars == <<refresh, calls>>
lateVars == <<inferVars, getStatsVars, callVars>>
auxVars == <<storeVars, fallbackVars, cloudVars, scanVars, lateVars>>
vars ==
    <<priceVars, matchVars, req, ladderVars, pageVars, webVars, auxVars>>

-----------------------------------------------------------------------------
(* Bounds *)

MaxIntDigits == 4    \* digits of the integer part of a written price
MaxTextLen == 4      \* length of an arbitrary price text
MaxRows == 2         \* article rows of a page
MaxClock == 1        \* ticks of the clock
MaxCardId == 2       \* rows ever inserted into the table cards

-----------------------------------------------------------------------------
(* Texts and decimals *)

Euro == "EUR"    \* the one character of the euro sign

DigitChars == <<"0", "1", "2", "3", "4", "5", "6", "7", "8", "9">>

IsDigit(c) == \E d \in 1..10 : DigitChars[d] = c

DigitVal(c) == (CHOOSE d \in 1..10 : DigitChars[d] = c) - 1

IsSep(c) == c \in {".", ","}

Contains(s, c) == \E i \in 1..Len(s) : s[i] = c

Count(s, c) == Cardinality({i \in 1..Len(s) : s[i] = c})

RECURSIVE Pow10(_)
Pow10(k) == IF k = 0 THEN 1 ELSE 10 * Pow10(k - 1)

RECURSIVE Norm(_, _)
Norm(n, k) ==
    IF k > 0 /\ n % 10 = 0 THEN Norm(n \div 10, k - 1) ELSE [n |-> n, k |-> k]

Zero == [n |-> 0, k |-> 0]

\* a < b on decimals
Less(a, b) == a.n * Pow10(b.k) < b.n * Pow10(a.k)

RECURSIVE IntOf(_)
IntOf(ds) ==
    IF ds = <<>> THEN 0
    ELSE 10 * IntOf(SubSeq(ds, 1, Len(ds) - 1)) + DigitVal(ds[Len(ds)])

RECURSIVE Digits(_)
Digits(n) ==
    IF n < 10 THEN <<DigitChars[n + 1]>>
    ELSE Digits(n \div 10) \o <<DigitChars[(n % 10) + 1]>>

RECURSIVE RemoveAll(_, _)
RemoveAll(s, c) ==
    IF s = <<>> THEN <<>>
    ELSE IF Head(s) = c THEN RemoveAll(Tail(s), c)
    ELSE <<Head(s)>> \o RemoveAll(Tail(s), c)

\* strings.Replace(s, old, new, 1)
ReplaceFirst(s, old, new) ==
    IF Contains(s, old)
    THEN LET i == CHOOSE j \in 1..Len(s) :
                     s[j] = old /\ \A h \in 1..(j - 1) : s[h] # old
         IN  [s EXCEPT ![i] = new]
    ELSE s

-----------------------------------------------------------------------------
(* extractNumericPrice *)

\* the number of digits at s[i], s[i+1], ..., at most max
RECURSIVE DigitRun(_, _, _)
DigitRun(s, i, max) ==
    IF max = 0 \/ i > Len(s) \/ ~IsDigit(s[i]) THEN 0
    ELSE 1 + DigitRun(s, i + 1, max - 1)

\* (?:[.,]\d{3})* from position pos: the position after the last group
RECURSIVE GroupsEnd(_, _)
GroupsEnd(s, pos) ==
    IF pos <= Len(s) /\ IsSep(s[pos]) /\ DigitRun(s, pos + 1, 3) = 3
    THEN GroupsEnd(s, pos + 4)
    ELSE pos

\* (?:[.,]\d{1,2})? from position pos: the position after it
DecimalsEnd(s, pos) ==
    IF pos <= Len(s) /\ IsSep(s[pos]) /\ DigitRun(s, pos + 1, 2) > 0
    THEN pos + 1 + DigitRun(s, pos + 1, 2)
    ELSE pos

\* re.FindStringSubmatch(priceText): the leftmost match, <<>> when there is none
FindNumber(s) ==
    IF \A i \in 1..Len(s) : ~IsDigit(s[i]) THEN <<>>
    ELSE LET start == CHOOSE i \in 1..Len(s) :
                          IsDigit(s[i]) /\ \A h \in 1..(i - 1) : ~IsDigit(s[h])
             afterInt == start + DigitRun(s, start, 3)
             stop == DecimalsEnd(s, GroupsEnd(s, afterInt))
         IN  SubSeq(s, start, stop - 1)

\* the branches that rewrite priceStr before the conversion
Reformat(priceStr, fullText) ==
    IF Contains(priceStr, ".") /\ Contains(priceStr, ",")
    THEN ReplaceFirst(RemoveAll(priceStr, "."), ",", ".")
    ELSE IF Count(priceStr, ".") = 1
    THEN LET dot == CHOOSE i \in 1..Len(priceStr) : priceStr[i] = "."
         IN  IF Len(priceStr) - dot = 3 /\ ~Contains(fullText, ",")
             THEN RemoveAll(priceStr, ".")
             ELSE priceStr
    ELSE IF Contains(priceStr, ",")
    THEN ReplaceFirst(priceStr, ",", ".")
    ELSE priceStr

\* strconv.ParseFloat(str, 64) on digits and separators
ParseFloat(str) ==
    IF str = <<>> \/ Contains(str, ",") \/ Count(str, ".") > 1
    THEN [ok |-> FALSE, val |-> Zero]
    ELSE IF Contains(str, ".")
    THEN LET dot == CHOOSE i \in 1..Len(str) : str[i] = "."
         IN  [ok |-> TRUE,
              val |-> Norm(IntOf(RemoveAll(str, ".")), Len(str) - dot)]
    ELSE [ok |-> TRUE, val |-> Norm(IntOf(str), 0)]

extractNumericPrice(text) ==
    LET matched == FindNumber(text)
    IN  IF matched = <<>> THEN Zero
        ELSE LET parsed == ParseFloat(Reformat(matched, text))
             IN  IF parsed.ok THEN parsed.val ELSE Zero

\* fmt.Sprintf("%.2f", v): v rounded to the nearest hundredth
Sprintf2f(v) ==
    LET cents == IF v.k <= 2 THEN v.n * Pow10(2 - v.k)
                 ELSE LET unit == Pow10(v.k - 2)
                          q == v.n \div unit
                          r == v.n % unit
                      IN  IF 2 * r > unit \/ (2 * r = unit /\ q % 2 = 1)
                          THEN q + 1 ELSE q
    IN  Digits(cents \div 100) \o <<".">>
            \o <<DigitChars[((cents \div 10) % 10) + 1]>>
            \o <<DigitChars[(cents % 10) + 1]>>

-----------------------------------------------------------------------------
(* Price texts *)

RECURSIVE SeqsUpTo(_, _)
SeqsUpTo(S, n) ==
    IF n = 0 THEN {<<>>}
    ELSE LET shorter == SeqsUpTo(S, n - 1)
         IN  shorter \cup {Append(s, c) : s \in shorter, c \in S}

SeqsOfLen(S, n) == {s \in SeqsUpTo(S, n) : Len(s) = n}

NotAPrice == [int |-> <<>>, frac |-> <<>>, conv |-> "none",
              grouped |-> FALSE, suffix |-> <<>>]

GenDigits == {"0", "1", "2"}

\* integer parts: no leading zero unless the part is "0"
IntParts ==
    {ds \in SeqsUpTo(GenDigits, MaxIntDigits) :
        Len(ds) >= 1 /\ (Len(ds) > 1 => ds[1] # "0")}

FracParts == SeqsUpTo(GenDigits, 2)

Suffixes == {<<>>, <<Euro>>, <<" ", Euro>>}

\* the prices the specification and the source comments give as examples
ExamplePrices ==
    { [int |-> <<"3">>, frac |-> <<"5", "0">>, conv |-> "comma",
       grouped |-> FALSE, suffix |-> <<" ", Euro>>],                \* 3,50 EUR
      [int |-> <<"1", "5", "0", "0", "0">>, frac |-> <<"0", "0">>,
       conv |-> "comma", grouped |-> TRUE, suffix |-> <<Euro>>],    \* 15.000,00EUR
      [int |-> <<"1", "2", "3", "4">>, frac |-> <<"5", "6">>,
       conv |-> "dot", grouped |-> FALSE, suffix |-> <<Euro>>],     \* 1234.56EUR
      [int |-> <<"1", "5", "0", "0", "0">>, frac |-> <<>>,
       conv |-> "comma", grouped |-> TRUE, suffix |-> <<Euro>>],    \* 15.000EUR
      [int |-> <<"1", "5", "0", "0", "0">>, frac |-> <<"5", "0">>,
       conv |-> "comma", grouped |-> TRUE, suffix |-> <<>>],       \* 15.000,50
      [int |-> <<"1", "2", "3", "4">>, frac |-> <<"5", "6">>,
       conv |-> "dot", grouped |-> TRUE, suffix |-> <<>>] }        \* 1,234.56

WellFormedPrices ==
    ExamplePrices \cup
    [int : IntParts, frac : FracParts, conv : {"comma", "dot"},
     grouped : BOOLEAN, suffix : Suffixes]

DecimalSep(p) == IF p.conv = "comma" THEN "," ELSE "."
GroupSep(p) == IF p.conv = "comma" THEN "." ELSE ","

\* ds with sep before every block of three digits counted from the right
RECURSIVE Grouped(_, _)
Grouped(ds, sep) ==
    IF Len(ds) <= 3 THEN ds
    ELSE Grouped(SubSeq(ds, 1, Len(ds) - 3), sep) \o <<sep>>
             \o SubSeq(ds, Len(ds) - 2, Len(ds))

\* the text of a well-formed price
Written(p) ==
    (IF p.grouped THEN Grouped(p.int, GroupSep(p)) ELSE p.int)
        \o (IF p.frac = <<>> THEN <<>> ELSE <<DecimalSep(p)>> \o p.frac)
        \o p.suffix

\* the amount a well-formed price denotes
Amount(p) == Norm(IntOf(p.int \o p.frac), Len(p.frac))

RawChars == {"1", "2", ".", ",", Euro}

RawTexts == SeqsUpTo(RawChars, MaxTextLen)

-----------------------------------------------------------------------------
(* Offers and findTheCard *)

Qualities == {"NM", "LP"}
Languages == {"English", "Francais"}

Criteria == [Quality : Qualities, Language : Languages, Edition : BOOLEAN]

CardOffer(mint, langue, edition, priceTxt) ==
    [Mint |-> mint, Language |-> langue, Edition |-> edition,
     Price |-> priceTxt, PriceNum |-> extractNumericPrice(priceTxt),
     Rarity |-> "", SetName |-> ""]

\* what the script of getInfos reads from one article row; success is FALSE
\* when the evaluation fails, returns null or sets result.success = false
RowPrices == {<<"1", Euro>>, <<Euro>>}

FailedRow ==
    [success |-> FALSE, mint |-> "", langue |-> "", edition |-> FALSE,
     price |-> <<>>]

PageRows ==
    {FailedRow} \cup
    [success : {TRUE}, mint : Qualities, langue : Languages,
     edition : BOOLEAN, price : RowPrices]

Pages == SeqsUpTo(PageRows, MaxRows)

\* mutant of getInfos: a row whose price has no number is dropped
RECURSIVE getInfosDroppingUnpriced(_)
getInfosDroppingUnpriced(page) ==
    IF page = <<>> THEN <<>>
    ELSE LET row == Head(page)
             offer == CardOffer(row.mint, row.langue, row.edition, row.price)
         IN  IF ~row.success \/ offer.PriceNum = Zero
             THEN getInfosDroppingUnpriced(Tail(page))
             ELSE <<offer>> \o getInfosDroppingUnpriced(Tail(page))

\* mutant of getInfos: the loop ends at the first row that fails
RECURSIVE getInfosAbortingOnError(_)
getInfosAbortingOnError(page) ==
    IF page = <<>> THEN <<>>
    ELSE LET row == Head(page)
         IN  IF ~row.success THEN <<>>
             ELSE <<CardOffer(row.mint, row.langue, row.edition, row.price)>>
                      \o getInfosAbortingOnError(Tail(page))

\* the loop of getInfos over the rows: a failed row is skipped
RECURSIVE getInfosRows(_)
getInfosRows(page) ==
    IF page = <<>> THEN <<>>
    ELSE LET row == Head(page)
         IN  IF ~row.success THEN getInfosRows(Tail(page))
             ELSE <<CardOffer(row.mint, row.langue, row.edition, row.price)>>
                      \o getInfosRows(Tail(page))

getInfos(page) == getInfosRows(page)

\* the nil *CardOffer
Nil == [Mint |-> "nil", Language |-> "nil", Edition |-> FALSE,
        Price |-> <<>>, PriceNum |-> Zero, Rarity |-> "", SetName |-> ""]

\* mutants of Matches: one comparison of the triple left out
MatchesIgnoringEdition(row, quality, langue, edition) ==
    row.Mint = quality /\ row.Language = langue

MatchesIgnoringLanguage(row, quality, langue, edition) ==
    row.Mint = quality /\ row.Edition = edition

Matches(row, quality, langue, edition) ==
    row.Mint = quality /\ row.Language = langue /\ row.Edition = edition

findTheCard(rows, quality, langue, edition) ==
    IF \E i \in 1..Len(rows) : Matches(rows[i], quality, langue, edition)
    THEN rows[CHOOSE i \in 1..Len(rows) :
                  /\ Matches(rows[i], quality, langue, edition)
                  /\ \A h \in 1..(i - 1) :
                         ~Matches(rows[h], quality, langue, edition)]
    ELSE Nil

\* the orders an offer list can be given in
Orderings(s) ==
    {[i \in 1..Len(s) |-> s[f[i]]] : f \in Permutations(1..Len(s))}

-----------------------------------------------------------------------------
(* The acquisition ladder: profiles, depths and errors *)

\* "app": scrapeCardInfo of app.go, one profile, two launchLoop calls
\* "standard": scrapeCardInfo off Windows, scrapeWithStandardMode
\* "modes": scrapeCardInfo on Windows, scrapeWithMultipleModes
\* "windows": scrapeCardInfoWindows on Windows, with its WebView fallback
Variants == {"app", "standard", "modes", "windows"}

\* modes := []string{"secure", "permissive", "minimal"}
Modes == <<"secure", "permissive", "minimal">>

\* the loadMore column of the attempts table of scrapeWithRetries
RetryLoadsExpandedFirst == <<TRUE, FALSE, FALSE, TRUE>>

RetryLoads == <<FALSE, FALSE, TRUE, TRUE>>

\* the load arguments of the two launchLoop calls
StandardLoads == <<FALSE, TRUE>>

Profiles(v) == IF v \in {"app", "standard"} THEN <<"default">> ELSE Modes

\* the delay column of the attempts table of scrapeWithRetries, in seconds
RetryDelays == <<2, 5, 8, 12>>

\* time.Sleep(3 * time.Second) after a mode that failed, but the last
ModeWait == 3

\* the seconds slept before attempt i of a profile: if i > 0 { time.Sleep(
\* attempt.delay) }; the two launchLoop calls of the standard mode follow
\* each other at once
WaitBefore(v, i) ==
    IF v \in {"app", "standard"} \/ i = 1 THEN 0 ELSE RetryDelays[i]

Loads(v) == IF v \in {"app", "standard"} THEN StandardLoads ELSE RetryLoads

\* the phrases AddCard looks for in the text of an error
NoMatchPhrase == "aucune carte correspondant aux criteres"
NoExtractPhrase == "impossible d'extraire les offres"
NoBrowserPhrase == "impossible de se connecter au navigateur"
DeadlinePhrase == "context deadline exceeded"

\* what a failed browser command can print with %v
Causes == {{}, {DeadlinePhrase}}

NoCriteria == [Quality |-> "", Language |-> "", Edition |-> FALSE]

\* an error, by the phrases its text contains and the criteria it prints
NoError == [failed |-> FALSE, phrases |-> {}, criteria |-> NoCriteria]

ErrorOf(ps) == [failed |-> TRUE, phrases |-> ps, criteria |-> NoCriteria]

\* mutant of NoMatchError: the error prints default criteria
NoMatchErrorDefaults(r) ==
    [failed |-> TRUE, phrases |-> {NoMatchPhrase},
     criteria |-> [Quality |-> "NM", Language |-> "Francais",
                   Edition |-> FALSE]]

\* fmt.Errorf("aucune carte correspondant aux criteres qualite=%s,
\* langue=%s, edition=%t", req.Quality, req.Language, req.Edition)
NoMatchError(r) ==
    [failed |-> TRUE, phrases |-> {NoMatchPhrase},
     criteria |-> [Quality |-> r.Quality, Language |-> r.Language,
                   Edition |-> r.Edition]]

\* the error after the loop of scrapeWithMultipleModes
AllModesFailedError == ErrorOf({NoBrowserPhrase})

\* the error mapping of AddCard of app.go
AddCardErrorApp(e, r) ==
    IF NoMatchPhrase \in e.phrases \/ NoExtractPhrase \in e.phrases
    THEN [kind |-> "notFound",
          criteria |-> [Quality |-> r.Quality, Language |-> r.Language,
                        Edition |-> r.Edition]]
    ELSE [kind |-> "scraping", criteria |-> NoCriteria]

\* the error mapping of the later AddCard
AddCardErrorModes(e, r) ==
    IF NoBrowserPhrase \in e.phrases
    THEN [kind |-> "browser", criteria |-> NoCriteria]
    ELSE IF NoMatchPhrase \in e.phrases \/ NoExtractPhrase \in e.phrases
    THEN [kind |-> "notFound",
          criteria |-> [Quality |-> r.Quality, Language |-> r.Language,
                        Edition |-> r.Edition]]
    ELSE IF DeadlinePhrase \in e.phrases
    THEN [kind |-> "timeout", criteria |-> NoCriteria]
    ELSE [kind |-> "scraping", criteria |-> NoCriteria]

NoAddError == [kind |-> "none", criteria |-> NoCriteria]

AddCardError(v, e, r) ==
    IF ~e.failed THEN NoAddError
    ELSE IF v = "app" THEN AddCardErrorApp(e, r)
    ELSE AddCardErrorModes(e, r)

\* mutant of ModeFailedLines: the failed browser test writes a line too
ModeFailedLinesWithTest(p) ==
    <<[line |-> "test", profile |-> p], [line |-> "mode", profile |-> p]>>

\* log.Printf("Mode %s echoue: %v", mode, err), once per failed profile
ModeFailedLines(p) == <<[line |-> "mode", profile |-> p]>>

\* the lines a missed attempt writes: scrapeWithRetries writes one per miss
\* and one more after the last; the single-profile scrapeCardInfo writes
\* one after its first miss only
TryFailedLines(v, p, i) ==
    IF v \in {"app", "standard"}
    THEN IF i = 1 THEN <<[line |-> "try", profile |-> p]>> ELSE <<>>
    ELSE IF i < Len(Loads(v)) THEN <<[line |-> "try", profile |-> p]>>
    ELSE <<[line |-> "try", profile |-> p], [line |-> "tries", profile |-> p]>>

\* launchLoop: nil when getPage or getInfos fails, else findTheCard
launchLoop(pageOK, infosOK, page, quality, langue, edition) ==
    IF ~pageOK THEN Nil
    ELSE IF ~infosOK THEN Nil
    ELSE findTheCard(getInfos(page), quality, langue, edition)

\* the set name and rarity read from the page replace the offer's
SetNames == {"", "Base Set"}
Rarities == {"", "Rare"}

enrich(offer, setFromPage, rarityFromPage) ==
    [offer EXCEPT
        !.SetName = IF setFromPage # "" THEN setFromPage ELSE @,
        !.Rarity = IF rarityFromPage # "" THEN rarityFromPage ELSE @]

\* the pages the attempts of the ladder read
LadderRows == {r \in PageRows : r.success => r.price = <<"1", Euro>>}

LadderPages == SeqsUpTo(LadderRows, MaxRows)

\* an offer of the WebView extraction: its attributes are inferred from the
\* text around the price, "" when no keyword is found
WebOffer(mint, langue, edition, num, rarity) ==
    [Mint |-> mint, Language |-> langue, Edition |-> edition,
     Price |-> Sprintf2f(num) \o <<Euro>>, PriceNum |-> num,
     Rarity |-> rarity, SetName |-> "Set CardMarket"]

WebPrices == {[n |-> 1, k |-> 0], [n |-> 2, k |-> 0]}

\* what parseTableRows returns for one table
WebLists ==
    SeqsUpTo({WebOffer(q, "English", FALSE, num, "Rarete CardMarket") :
                  q \in Qualities \cup {""}, num \in WebPrices}, MaxRows)

\* the existing tables in the order of tableSelectors
WebTables ==
    {<<>>} \cup {<<l>> : l \in WebLists} \cup {<<<<>>, l>> : l \in WebLists}

\* what extractPricesDirectly returns
WebDirect ==
    {<<>>, <<WebOffer("", "", FALSE, [n |-> 1, k |-> 0], "Rarete inconnue")>>}

\* what extractAllVisiblePrices returns
WebVisible ==
    {<<>>,
     <<WebOffer("", "", FALSE, [n |-> 1, k |-> 0], "Rarete universelle")>>}

\* the loop over tableSelectors: the rows of the first table that has offers
RECURSIVE FirstTableWithOffers(_)
FirstTableWithOffers(tables) ==
    IF tables = <<>> THEN <<>>
    ELSE IF Head(tables) # <<>> THEN Head(tables)
    ELSE FirstTableWithOffers(Tail(tables))

extractOffersFromWebView(tables, direct, visible) ==
    LET fromTables == FirstTableWithOffers(tables)
    IN  IF fromTables # <<>> THEN fromTables
        ELSE IF direct # <<>> THEN direct
        ELSE visible

\* the lowest price of the extracted offers, the first of equal prices
findBestOfferWebView(offers) ==
    IF offers = <<>> THEN Nil
    ELSE offers[CHOOSE i \in 1..Len(offers) :
                    /\ \A j \in 1..Len(offers) :
                           ~Less(offers[j].PriceNum, offers[i].PriceNum)
                    /\ \A h \in 1..(i - 1) :
                           Less(offers[i].PriceNum, offers[h].PriceNum)]

\* what launchLoop can return when the page loads and the rows are read
LaunchResults ==
    [r \in Criteria |->
        {launchLoop(TRUE, TRUE, page, r.Quality, r.Language, r.Edition) :
             page \in LadderPages}]

\* what findBestOfferWebView can choose
WebViewResults ==
    {findBestOfferWebView(extractOffersFromWebView(tables, direct, visible)) :
         tables \in WebTables, direct \in WebDirect, visible \in WebVisible}

\* the plain tables of prices a page can hold outside any article row
PlainTables == {<<>>, <<<<"1", Euro>>>>}

Pikachu == <<"P", "i", "k", "a", "c", "h", "u">>

\* name = "Carte inconnue"
CarteInconnue ==
    <<"C", "a", "r", "t", "e", " ",
      "i", "n", "c", "o", "n", "n", "u", "e">>

\* the text of the first heading of the card page, <<>> when it is empty or
\* cannot be read: nothing, one space, a name between two spaces
Names == {<<>>, <<" ">>, <<" ">> \o Pikachu \o <<" ">>}

\* strings.TrimSpace
RECURSIVE TrimLeft(_)
TrimLeft(text) ==
    IF text # <<>> /\ Head(text) = " " THEN TrimLeft(Tail(text)) ELSE text

RECURSIVE TrimRight(_)
TrimRight(text) ==
    IF text # <<>> /\ text[Len(text)] = " "
    THEN TrimRight(SubSeq(text, 1, Len(text) - 1))
    ELSE text

TrimSpace(text) == TrimRight(TrimLeft(text))

NoInfo == [Name |-> <<>>, Set |-> "", Rarity |-> "", Price |-> <<>>,
           PriceNum |-> Zero]

NoEnrichment == [nav |-> TRUE, name |-> <<>>, eval |-> TRUE]

\* the ScrapedCardInfo filled after a hit
extractCardDetails(offer, name, setFromPage, rarityFromPage) ==
    [Name |-> TrimSpace(IF name = <<>> THEN CarteInconnue ELSE name),
     Set |-> IF setFromPage # "" THEN setFromPage
             ELSE IF offer.SetName # "" THEN offer.SetName
             ELSE "Set inconnu",
     Rarity |-> IF rarityFromPage # "" THEN rarityFromPage
                ELSE IF offer.Rarity # "" THEN offer.Rarity
                ELSE "Rarete inconnue",
     Price |-> offer.Price,
     PriceNum |-> offer.PriceNum]

\* mutant of enrichmentError: a failed navigation fails the call
enrichmentErrorOnNavigation(navOK, name, evalOK) ==
    IF navOK THEN NoError ELSE ErrorOf({})

\* the error returned after a hit, whatever the enrichment steps did
enrichmentError(navOK, name, evalOK) == NoError

\* the browser sessions made for one profile up to the end of its test:
\* testBrowserConnectionSimple makes its own and closes it
SessionsOfTest(v, ok) == IF v = "windows" /\ ok THEN 2 ELSE 1

\* is the navigation of the attempt run under a deadline
NavigationTimeout(v) == v = "windows"

-----------------------------------------------------------------------------
(* One attempt step by step, and the WebView cascade *)

\* the steps of getPage that follow one another when moreLoad is false
StepAfterWithoutLoad(step, ok, buttonExists) ==
    CASE step = "navigate" -> IF ok THEN "botcheck" ELSE "returned"
      [] step = "botcheck" -> "consent"
      [] step = "consent" -> "getInfos"
      [] step = "scroll" -> "detect"
      [] step = "detect" -> IF ok /\ buttonExists THEN "click" ELSE "getInfos"
      [] step = "click" -> "getInfos"
      [] step = "getInfos" -> IF ok THEN "findTheCard" ELSE "returned"
      [] step = "findTheCard" -> "returned"

\* mutant of StepAfter: the content is expanded whatever moreLoad says
StepAfterAlwaysExpanding(step, moreLoadArg, ok, buttonExists) ==
    IF step = "consent" THEN "scroll"
    ELSE StepAfterWithoutLoad(step, ok, buttonExists)

\* the step launchLoop and getPage go to when step has ended
StepAfter(step, moreLoadArg, ok, buttonExists) ==
    IF step = "consent" /\ moreLoadArg THEN "scroll"
    ELSE StepAfterWithoutLoad(step, ok, buttonExists)

\* mutant of FatalSteps: a page without a consent banner ends the attempt
FatalStepsWithConsent == {"navigate", "consent"}

\* the steps of getPage whose failure is returned, not only logged
FatalSteps == {"navigate"}

\* the error getPage returns after the steps failedSteps have failed
getPageFails(failedSteps) == failedSteps \cap FatalSteps # {}

\* the selectors of the consent banner, tried in turn
CookieSelectorCount == 10

\* mutant of StrategyRuns: the next strategy runs whatever was found
StrategyRunsAlways(offers) == TRUE

\* if len(offers) == 0: the guard of the direct and of the universal scan
StrategyRuns(offers) == Len(offers) = 0

-----------------------------------------------------------------------------
(* The card store: AddCard and RescrapAllCards *)

StoreUrls == {"u1", "u2"}

CardTypes == {"collection", "wishlist"}

\* the criteria of the requests made to the store
StoreCriteria ==
    {[Quality |-> "NM", Language |-> "English", Edition |-> FALSE],
     [Quality |-> "LP", Language |-> "Francais", Edition |-> TRUE]}

\* the set name and rarity the card page gives together
PageDetails == {<<"", "">>, <<"Base Set", "Rare">>}

\* what scrapeCardInfo returns to AddCard and RescrapAllCards; extracted is
\* the length of the list getInfos gave the attempt that ended the scrape
ScrapeFailure ==
    [failed |-> TRUE, Name |-> <<>>, Set |-> "", Rarity |-> "", Price |-> <<>>,
     PriceNum |-> Zero, Offers |-> <<>>, extracted |-> 0]

scrapeCardInfo(page, r, name, setFromPage, rarityFromPage) ==
    LET offers == getInfos(page)
        hit == findTheCard(offers, r.Quality, r.Language, r.Edition)
        details == extractCardDetails(hit, name, setFromPage, rarityFromPage)
    IN  IF hit = Nil THEN ScrapeFailure
        ELSE [failed |-> FALSE, Name |-> details.Name, Set |-> details.Set,
              Rarity |-> details.Rarity, Price |-> details.Price,
              PriceNum |-> details.PriceNum,
              Offers |-> <<enrich(hit, setFromPage, rarityFromPage)>>,
              extracted |-> Len(offers)]

ScrapeResults ==
    [r \in StoreCriteria |->
        {ScrapeFailure} \cup
        {scrapeCardInfo(page, r, Pikachu, d[1], d[2]) :
             page \in LadderPages, d \in PageDetails}]

\* the row AddCard inserts
NewCard(id, url, type, r, cardInfo, t) ==
    [ID |-> id, Name |-> cardInfo.Name, Set |-> cardInfo.Set,
     Rarity |-> cardInfo.Rarity, Price |-> cardInfo.Price,
     PriceNum |-> cardInfo.PriceNum, CardURL |-> url, Type |-> type,
     LastUpdated |-> t, Quality |-> r.Quality, Language |-> r.Language,
     Edition |-> r.Edition, TotalOffers |-> Len(cardInfo.Offers)]

NoCard ==
    [ID |-> 0, Name |-> <<>>, Set |-> "", Rarity |-> "", Price |-> <<>>,
     PriceNum |-> Zero, CardURL |-> "", Type |-> "", LastUpdated |-> 0,
     Quality |-> "", Language |-> "", Edition |-> FALSE, TotalOffers |-> 0]

\* SELECT ... FROM cards WHERE card_url = ?
getCardByURL(cards, url) ==
    IF \E i \in 1..Len(cards) : cards[i].CardURL = url
    THEN cards[CHOOSE i \in 1..Len(cards) : cards[i].CardURL = url]
    ELSE NoCard

\* mutant of moveCard: the moved card takes the criteria of the request
moveCardWithDefaults(cards, id, newType, t) ==
    [i \in 1..Len(cards) |->
        IF cards[i].ID = id
        THEN [cards[i] EXCEPT !.Type = newType, !.LastUpdated = t,
                              !.Quality = "", !.Language = "",
                              !.Edition = FALSE]
        ELSE cards[i]]

\* UPDATE cards SET type = ?, last_updated = CURRENT_TIMESTAMP WHERE id = ?
moveCard(cards, id, newType, t) ==
    [i \in 1..Len(cards) |->
        IF cards[i].ID = id
        THEN [cards[i] EXCEPT !.Type = newType, !.LastUpdated = t]
        ELSE cards[i]]

\* mutant of AddCardExisting: a card of the same type is written again
AddCardExistingTouching(cards, existing, type, t) ==
    moveCard(cards, existing.ID, type, t)

\* AddCard when getCardByURL finds the URL: the store afterwards
AddCardExisting(cards, existing, type, t) ==
    IF existing.Type = type THEN cards
    ELSE moveCard(cards, existing.ID, type, t)

\* UPDATE cards SET name = ?, ..., last_updated = CURRENT_TIMESTAMP
\* WHERE id = ?, of RescrapAllCards
updateCard(cards, id, cardInfo, t) ==
    [i \in 1..Len(cards) |->
        IF cards[i].ID = id
        THEN [cards[i] EXCEPT !.Name = cardInfo.Name, !.Set = cardInfo.Set,
                              !.Rarity = cardInfo.Rarity,
                              !.Price = cardInfo.Price,
                              !.PriceNum = cardInfo.PriceNum,
                              !.LastUpdated = t]
        ELSE cards[i]]

\* SELECT id, card_url, type, quality, language, edition ... ORDER BY id
ReadCards(cards) ==
    [i \in 1..Len(cards) |->
        [ID |-> cards[i].ID, URL |-> cards[i].CardURL, Type |-> cards[i].Type,
         Quality |-> cards[i].Quality, Language |-> cards[i].Language,
         Edition |-> cards[i].Edition]]

\* mutant of NextCard: the loop ends at the first card that fails
NextCardStoppingOnError(i, n, failed) == IF failed THEN n + 1 ELSE i + 1

\* the index of the loop of RescrapAllCards after card i of n: continue
NextCard(i, n, failed) == i + 1

\* stats: total_cards, updated, errors, and in error_details the ids of the
\* cards whose message was appended
NoStats == [total |-> 0, updated |-> 0, errors |-> 0, details |-> <<>>]

\* mutant of CountCard: an error is counted without its message
CountCardWithoutDetail(st, id, outcome) ==
    IF outcome = "updated" THEN [st EXCEPT !.updated = @ + 1]
    ELSE [st EXCEPT !.errors = @ + 1]

\* stats after the card id: updated++ after a scrape and an UPDATE without
\* error, else errors++ and a line appended to error_details
CountCard(st, id, outcome) ==
    IF outcome = "updated" THEN [st EXCEPT !.updated = @ + 1]
    ELSE [st EXCEPT !.errors = @ + 1, !.details = Append(@, id)]

\* mutant of AddCardNew: the row stays although the INSERT failed
AddCardNewDespiteError(cards, newCard, cardInfo, dbOK) ==
    IF cardInfo.failed THEN cards ELSE Append(cards, newCard)

\* the table after AddCard for a URL not stored yet: nothing is written when
\* scrapeCardInfo fails, and nothing when the INSERT fails
AddCardNew(cards, newCard, cardInfo, dbOK) ==
    IF cardInfo.failed \/ ~dbOK THEN cards ELSE Append(cards, newCard)

NoOp == [call |-> "", type |-> "", result |-> "", scraped |-> FALSE,
         extracted |-> 0]

-----------------------------------------------------------------------------
(* UpdateCardPriceFixed *)

\* SELECT ... FROM cards WHERE id = ?
getCardByID(cards, id) ==
    IF \E i \in 1..Len(cards) : cards[i].ID = id
    THEN cards[CHOOSE i \in 1..Len(cards) : cards[i].ID = id]
    ELSE NoCard

\* the request UpdateCardPriceFixed scrapes with
defaultReq == [Quality |-> "NM", Language |-> "Francais", Edition |-> FALSE]

\* the request RescrapAllCards builds from a card: its stored criteria
RefreshRequestOfCard(saved) ==
    [Quality |-> saved.Quality, Language |-> saved.Language,
     Edition |-> saved.Edition]

\* the request scrapeCardInfo is called with for the card
RefreshRequest(saved) == defaultReq

\* UPDATE cards SET price = ?, price_num = ?, last_updated = CURRENT_TIMESTAMP
\* WHERE id = ?
updatePrice(cards, id, cardInfo, t) ==
    [i \in 1..Len(cards) |->
        IF cards[i].ID = id
        THEN [cards[i] EXCEPT !.Price = cardInfo.Price,
                              !.PriceNum = cardInfo.PriceNum,
                              !.LastUpdated = t]
        ELSE cards[i]]

\* what the scrape of a one-row page gives each request
RowResults ==
    [r \in StoreCriteria \cup {defaultReq} |->
        {ScrapeFailure} \cup
        {scrapeCardInfo(<<row>>, r, Pikachu, "Base Set", "Rare") :
             row \in LadderRows}]

\* mutant of insertCard: the column card_url is not UNIQUE
insertCardWithoutUnique(cards, newCard, dbOK) ==
    IF dbOK THEN Append(cards, newCard) ELSE cards

\* INSERT INTO cards ...: the statement fails when a row has the card_url
\* already, the column being UNIQUE
insertCard(cards, newCard, dbOK) ==
    IF dbOK /\ \A i \in 1..Len(cards) : cards[i].CardURL # newCard.CardURL
    THEN Append(cards, newCard)
    ELSE cards

\* the AddCard calls that run side by side
CallSlots == {"first", "second"}

IdleCall ==
    [pc |-> "idle", url |-> "", type |-> "",
     criteria |-> [Quality |-> "", Language |-> "", Edition |-> FALSE],
     info |-> ScrapeFailure, result |-> ""]

NoRefresh ==
    [id |-> 0, used |-> defaultReq,
     chosen |-> [Quality |-> "", Language |-> "", Edition |-> FALSE]]

-----------------------------------------------------------------------------
(* GetStats, Sumprice, MoveCard, DeleteCard *)

\* a + b on decimals
AddDec(a, b) ==
    IF a.k >= b.k THEN Norm(a.n + b.n * Pow10(a.k - b.k), a.k)
    ELSE Norm(a.n * Pow10(b.k - a.k) + b.n, b.k)

\* SELECT COUNT(*), COALESCE(SUM(price_num), 0) FROM cards WHERE type = ?
RECURSIVE CountOfType(_, _)
CountOfType(cards, type) ==
    IF cards = <<>> THEN [count |-> 0, value |-> Zero]
    ELSE LET others == CountOfType(Tail(cards), type)
         IN  IF Head(cards).Type = type
             THEN [count |-> others.count + 1,
                   value |-> AddDec(Head(cards).PriceNum, others.value)]
             ELSE others

\* SELECT COALESCE(SUM(price_num), 0) FROM cards
RECURSIVE Sumprice(_)
Sumprice(cards) ==
    IF cards = <<>> THEN Zero
    ELSE AddDec(Head(cards).PriceNum, Sumprice(Tail(cards)))

NoCount == [count |-> 0, value |-> Zero]

\* the map GetStats fills from its two queries
GetStatsMap(first, second) ==
    [collection_count |-> first.count, wishlist_count |-> second.count,
     collection_value |-> first.value, wishlist_value |-> second.value,
     total_cards |-> first.count + second.count,
     total_value |-> AddDec(first.value, second.value)]

\* the types MoveCard is called with: newType is any string
MoveTypes == CardTypes \cup {"trade"}

\* DELETE FROM cards WHERE id = ?
deleteCard(cards, id) == SelectSeq(cards, LAMBDA c : c.ID # id)

\* a write that only moves cards between collection and wishlist, in a table
\* that has no other type
OnlyMoved(before, after) ==
    /\ Len(before) = Len(after)
    /\ \A i \in 1..Len(before) :
           /\ before[i].Type \in CardTypes
           /\ after[i].Type \in CardTypes
           /\ [after[i] EXCEPT !.Type = "", !.LastUpdated = 0] =
                  [before[i] EXCEPT !.Type = "", !.LastUpdated = 0]

NoGetStats == GetStatsMap(NoCount, NoCount)

-----------------------------------------------------------------------------
(* The fallback ladder findBestOfferWithFallback *)

\* the first offer with exactly this triple, as findTheCard
findBestOffer(offers, quality, language, edition) ==
    IF \E i \in 1..Len(offers) :
           /\ offers[i].Mint = quality
           /\ offers[i].Language = language
           /\ offers[i].Edition = edition
    THEN offers[CHOOSE i \in 1..Len(offers) :
                    /\ offers[i].Mint = quality
                    /\ offers[i].Language = language
                    /\ offers[i].Edition = edition
                    /\ \A h \in 1..(i - 1) :
                           ~(/\ offers[h].Mint = quality
                             /\ offers[h].Language = language
                             /\ offers[h].Edition = edition)]
    ELSE Nil

\* the offer returned and the rung whose line is logged, 0 for none
findBestOfferWithFallback(offers) ==
    IF findBestOffer(offers, "NM", "Francais", FALSE) # Nil
    THEN [offer |-> findBestOffer(offers, "NM", "Francais", FALSE), rung |-> 1]
    ELSE IF findBestOffer(offers, "NM", "Francais", TRUE) # Nil
    THEN [offer |-> findBestOffer(offers, "NM", "Francais", TRUE), rung |-> 2]
    ELSE IF \E i \in 1..Len(offers) : offers[i].Mint = "NM"
    THEN [offer |-> offers[CHOOSE i \in 1..Len(offers) :
                               /\ offers[i].Mint = "NM"
                               /\ \A h \in 1..(i - 1) : offers[h].Mint # "NM"],
          rung |-> 3]
    ELSE IF Len(offers) > 0
    THEN [offer |-> offers[1], rung |-> 4]
    ELSE [offer |-> Nil, rung |-> 0]

\* the offer lists given to the fallback ladder
FallbackOffers ==
    SeqsUpTo({CardOffer(q, l, e, p) :
                  q \in Qualities, l \in Languages, e \in BOOLEAN,
                  p \in {<<"1", Euro>>, <<"2", Euro>>}}, MaxRows)

-----------------------------------------------------------------------------
(* The bot-check wait waitForCloudflare *)

\* for i := 0; i < 20; i++
CloudflarePolls == 20

\* mutant of AfterLastPoll: the wait fails when the challenge stays
AfterLastPollFailing == "error"

\* what waitForCloudflare returns when every poll saw the challenge
AfterLastPoll == "ok"

-----------------------------------------------------------------------------
(* The text scans extractPricesDirectly and extractAllVisiblePrices *)

\* the whole-euro amounts a page can show, besides 0 and 600
MaxPriceValue == 11

ScanValues == (0..MaxPriceValue) \cup {600}

\* if (numPrice > 0 && numPrice < limit)
RECURSIVE Reasonable(_, _)
Reasonable(amounts, limit) ==
    IF amounts = <<>> THEN <<>>
    ELSE IF Head(amounts) > 0 /\ Head(amounts) < limit
    THEN <<Head(amounts)>> \o Reasonable(Tail(amounts), limit)
    ELSE Reasonable(Tail(amounts), limit)

\* mutant of UniquePrices: every price amounts is kept
AllPricesKept(amounts) == amounts

\* the loop over seenPrices: the first occurrence of each amount is kept
RECURSIVE UniquePricesFrom(_, _)
UniquePricesFrom(amounts, seen) ==
    IF amounts = <<>> THEN <<>>
    ELSE IF Head(amounts) \in seen THEN UniquePricesFrom(Tail(amounts), seen)
    ELSE <<Head(amounts)>>
             \o UniquePricesFrom(Tail(amounts), seen \cup {Head(amounts)})

UniquePrices(amounts) == UniquePricesFrom(amounts, {})

\* uniquePrices.sort((a, b) => a.numPrice - b.numPrice)
RECURSIVE InsertByPrice(_, _)
InsertByPrice(sorted, v) ==
    IF sorted = <<>> THEN <<v>>
    ELSE IF v < Head(sorted) THEN <<v>> \o sorted
    ELSE <<Head(sorted)>> \o InsertByPrice(Tail(sorted), v)

RECURSIVE SortByPrice(_)
SortByPrice(amounts) ==
    IF amounts = <<>> THEN <<>>
    ELSE InsertByPrice(SortByPrice(SubSeq(amounts, 1, Len(amounts) - 1)),
                       amounts[Len(amounts)])

\* the first n elements: slice(0, n) in the script, break in the Go loop
Take(s, n) == IF Len(s) <= n THEN s ELSE SubSeq(s, 1, n)

\* the CardOffer made from an amount amounts without any keyword around it
ScanOffer(v, priceTxt, rarity) ==
    [Mint |-> "", Language |-> "", Edition |-> FALSE, Price |-> priceTxt,
     PriceNum |-> [n |-> v, k |-> 0], Rarity |-> rarity,
     SetName |-> "Set CardMarket"]

\* pricesFound of extractPricesDirectly: the table rows first, every element
\* of the page after them when the rows gave fewer than three
PricesFoundDirectly(inRows, amounts) ==
    LET fromRows == IF inRows THEN Reasonable(amounts, 500) ELSE <<>>
    IN  IF Len(fromRows) < 3 THEN fromRows \o Reasonable(amounts, 500)
        ELSE fromRows

extractPricesDirectly(inRows, amounts) ==
    LET raw == Take(SortByPrice(UniquePrices(PricesFoundDirectly(inRows,
                                                                  amounts))), 10)
    IN  [i \in 1..Len(Take(raw, 3)) |->
            ScanOffer(raw[i], Sprintf2f([n |-> raw[i], k |-> 0]) \o <<Euro>>,
                      "Rarete inconnue")]

extractAllVisiblePrices(amounts) ==
    LET raw == SortByPrice(UniquePrices(Reasonable(amounts, 1000)))
    IN  [i \in 1..Len(Take(raw, 10)) |->
            ScanOffer(raw[i], Digits(raw[i]) \o <<Euro>>,
                      "Rarete universelle")]

\* the amounts of a set of values in rising order
RECURSIVE Rising(_)
Rising(S) ==
    IF S = {} THEN <<>>
    ELSE LET least == CHOOSE v \in S : \A w \in S : v <= w
         IN  <<least>> \o Rising(S \ {least})

RECURSIVE Reversed(_)
Reversed(s) == IF s = <<>> THEN <<>> ELSE Reversed(Tail(s)) \o <<Head(s)>>

\* the amounts amounts on a page, in document order: each amount shown twice,
\* or the amounts in falling order
ScanPages ==
    {Rising(S) \o Rising(S) : S \in SUBSET ScanValues} \cup
    {Reversed(Rising(S)) : S \in SUBSET ScanValues}

-----------------------------------------------------------------------------
(* Keyword inference: extractQualityFromContext, extractLanguageFromContext *)

\* the words of a text, besides the space between them
MaxWords == 2

UpperLetters ==
    <<"A", "B", "C", "D", "E", "F", "G", "H", "I", "J", "K", "L", "M",
      "N", "O", "P", "Q", "R", "S", "T", "U", "V", "W", "X", "Y", "Z">>

LowerLetters ==
    <<"a", "b", "c", "d", "e", "f", "g", "h", "i", "j", "k", "l", "m",
      "n", "o", "p", "q", "r", "s", "t", "u", "v", "w", "x", "y", "z">>

\* strings.ToLower
ToLower(text) ==
    [i \in 1..Len(text) |->
        IF \E k \in 1..Len(UpperLetters) : UpperLetters[k] = text[i]
        THEN LowerLetters[CHOOSE k \in 1..Len(UpperLetters) :
                              UpperLetters[k] = text[i]]
        ELSE text[i]]

\* strings.Contains(text, keyword)
ContainsText(text, keyword) ==
    \E i \in 0..(Len(text) - Len(keyword)) :
        SubSeq(text, i + 1, i + Len(keyword)) = keyword

qualityMap ==
    {[keyword |-> <<"n", "e", "a", "r", " ", "m", "i", "n", "t">>,
      value |-> "NM"],
     [keyword |-> <<"n", "m">>,
      value |-> "NM"],
     [keyword |-> <<"l", "i", "g", "h", "t", "l", "y", " ", "p", "l", "a", "y", "e", "d">>,
      value |-> "LP"],
     [keyword |-> <<"l", "p">>,
      value |-> "LP"],
     [keyword |-> <<"m", "o", "d", "e", "r", "a", "t", "e", "l", "y", " ", "p", "l", "a", "y", "e", "d">>,
      value |-> "MP"],
     [keyword |-> <<"m", "p">>,
      value |-> "MP"],
     [keyword |-> <<"h", "e", "a", "v", "i", "l", "y", " ", "p", "l", "a", "y", "e", "d">>,
      value |-> "HP"],
     [keyword |-> <<"h", "p">>,
      value |-> "HP"],
     [keyword |-> <<"p", "o", "o", "r">>,
      value |-> "PO"],
     [keyword |-> <<"p", "o">>,
      value |-> "PO"],
     [keyword |-> <<"d", "a", "m", "a", "g", "e", "d">>,
      value |-> "PO"]}

languageMap ==
    {[keyword |-> <<"f", "r", "a", "n", "c", "a", "i", "s">>,
      value |-> "Francais"],
     [keyword |-> <<"f", "r", "e", "n", "c", "h">>,
      value |-> "Francais"],
     [keyword |-> <<"e", "n", "g", "l", "i", "s", "h">>,
      value |-> "English"],
     [keyword |-> <<"a", "n", "g", "l", "a", "i", "s">>,
      value |-> "English"],
     [keyword |-> <<"g", "e", "r", "m", "a", "n">>,
      value |-> "Deutsch"],
     [keyword |-> <<"a", "l", "l", "e", "m", "a", "n", "d">>,
      value |-> "Deutsch"],
     [keyword |-> <<"d", "e", "u", "t", "s", "c", "h">>,
      value |-> "Deutsch"],
     [keyword |-> <<"i", "t", "a", "l", "i", "a", "n">>,
      value |-> "Italiano"],
     [keyword |-> <<"i", "t", "a", "l", "i", "e", "n">>,
      value |-> "Italiano"],
     [keyword |-> <<"i", "t", "a", "l", "i", "a", "n", "o">>,
      value |-> "Italiano"],
     [keyword |-> <<"s", "p", "a", "n", "i", "s", "h">>,
      value |-> "Espanol"],
     [keyword |-> <<"e", "s", "p", "a", "g", "n", "o", "l">>,
      value |-> "Espanol"],
     [keyword |-> <<"e", "s", "p", "a", "n", "o", "l">>,
      value |-> "Espanol"],
     [keyword |-> <<"j", "a", "p", "a", "n", "e", "s", "e">>,
      value |-> "Japanese"],
     [keyword |-> <<"j", "a", "p", "o", "n", "a", "i", "s">>,
      value |-> "Japanese"]}

\* for keyword, value := range dictionary: the order in which range visits
\* a map is not specified and differs from one call to the next, so the
\* value returned is that of any of the keywords the text contains
RangeOverMap(dictionary, text) ==
    LET hits == {e \in dictionary : ContainsText(ToLower(text), e.keyword)}
    IN  IF hits = {} THEN {""} ELSE {e.value : e \in hits}

\* the values extractQualityFromContext can return for a text
extractQualityFromContext(text) == RangeOverMap(qualityMap, text)

\* the values extractLanguageFromContext can return for a text
extractLanguageFromContext(text) == RangeOverMap(languageMap, text)

\* the words a row's text is made of
ContextWords ==
    {<<"p", "o">>,
     <<"n", "e", "a", "r", " ", "m", "i", "n", "t">>,
     <<"N", "M">>,
     <<"l", "p">>,
     <<"p", "o", "k", "e", "m", "o", "n">>,
     <<"F", "r", "e", "n", "c", "h">>,
     <<"e", "n", "g", "l", "i", "s", "h">>,
     <<"c", "a", "r", "t", "e">>}

RECURSIVE JoinWords(_)
JoinWords(ws) ==
    IF ws = <<>> THEN <<>>
    ELSE IF Len(ws) = 1 THEN ws[1]
    ELSE ws[1] \o <<" ">> \o JoinWords(Tail(ws))

Contexts == {JoinWords(ws) : ws \in SeqsUpTo(ContextWords, MaxWords)}

-----------------------------------------------------------------------------
(* SpecPrice: the price parser *)

PriceIdle ==
    /\ priceText = <<>>
    /\ wellFormed = NotAPrice
    /\ price = Zero
    /\ formatted = <<>>
    /\ reparsed = Zero
    /\ pricePc = "idle"

MatchIdle ==
    /\ articleRows = <<>>
    /\ donnees = <<>>
    /\ donnees2 = <<>>
    /\ result = Nil
    /\ result2 = Nil
    /\ matchPc = "idle"
    /\ priceTable = <<>>

LadderIdle ==
    /\ variant = "app"
    /\ mode = 1
    /\ attempt = 1
    /\ connected = {}
    /\ attempts = <<>>
    /\ failures = <<>>
    /\ session = 0
    /\ live = {}
    /\ opened = 0
    /\ usedSession = <<>>
    /\ cancelled = FALSE
    /\ startedAfterCancel = FALSE
    /\ found = Nil
    /\ card = Nil
    /\ info = NoInfo
    /\ enrichment = NoEnrichment
    /\ err = NoError
    /\ addErr = NoAddError
    /\ waits = <<>>
    /\ profileWaits = <<>>
    /\ ladderPc = "idle"

PageIdle ==
    /\ moreLoad = FALSE
    /\ steps = <<>>
    /\ stepErrors = {}
    /\ selector = 0
    /\ banner = 0
    /\ consentExpired = FALSE
    /\ consentTried = {}
    /\ clickedSelector = 0
    /\ pageErr = FALSE
    /\ pageOffer = Nil
    /\ pagePc = "idle"

WebIdle ==
    /\ webTables = <<>>
    /\ webDirect = <<>>
    /\ webVisible = <<>>
    /\ tableIdx = 1
    /\ ran = <<>>
    /\ webOffers = <<>>
    /\ webPc = "idle"

StoreIdle ==
    /\ store = <<>>
    /\ nextId = 1
    /\ now = 0
    /\ op = NoOp
    /\ cardsRead = <<>>
    /\ rIdx = 1
    /\ inFlight = 0
    /\ rescrapLog = <<>>
    /\ stats = NoStats
    /\ rPc = "idle"

FallbackIdle ==
    /\ fbOffers = <<>>
    /\ fbResult = [offer |-> Nil, rung |-> 0]
    /\ fbPc = "idle"

CloudIdle ==
    /\ clearsAt = 1
    /\ failsAt = 1
    /\ polls = 0
    /\ cfSlept = 0
    /\ cfResult = "none"
    /\ cfPc = "idle"

ScanIdle ==
    /\ scanPrices = <<>>
    /\ scanInRows = FALSE
    /\ directOffers = <<>>
    /\ visibleOffers = <<>>
    /\ scanPc = "idle"

InferIdle ==
    /\ context = <<>>
    /\ qualityOut = ""
    /\ qualityAgain = ""
    /\ languageOut = ""
    /\ languageAgain = ""
    /\ inferPc = "idle"

GetStatsIdle ==
    /\ gsPc = "idle"
    /\ gsFirst = NoCount
    /\ gsChanged = "no"
    /\ gsOut = NoGetStats

CallIdle ==
    /\ refresh = NoRefresh
    /\ calls = <<>>

LateIdle == InferIdle /\ GetStatsIdle /\ CallIdle

AuxIdle == StoreIdle /\ FallbackIdle /\ CloudIdle /\ ScanIdle /\ LateIdle

ReqIdle == req = [Quality |-> "NM", Language |-> "English", Edition |-> FALSE]

InitPrice ==
    /\ \/ \E p \in WellFormedPrices :
              wellFormed = p /\ priceText = Written(p)
       \/ wellFormed = NotAPrice /\ priceText \in RawTexts
    /\ price = Zero
    /\ formatted = <<>>
    /\ reparsed = Zero
    /\ pricePc = "start"
    /\ MatchIdle
    /\ ReqIdle
    /\ LadderIdle
    /\ PageIdle
    /\ WebIdle
    /\ AuxIdle

\* price := a.extractNumericPrice(priceText)
ExtractNumericPrice ==
    /\ pricePc = "start"
    /\ price' = extractNumericPrice(priceText)
    /\ pricePc' = "parsed"
    /\ UNCHANGED <<priceText, wellFormed, formatted, reparsed, matchVars, req,
                   ladderVars, pageVars, webVars, auxVars>>

\* the price written with "%.2f" and read again
FormatAndReparse ==
    /\ pricePc = "parsed"
    /\ formatted' = Sprintf2f(price)
    /\ reparsed' = extractNumericPrice(Sprintf2f(price))
    /\ pricePc' = "reparsed"
    /\ UNCHANGED <<priceText, wellFormed, price, matchVars, req,
                   ladderVars, pageVars, webVars, auxVars>>

NextPrice == ExtractNumericPrice \/ FormatAndReparse

SpecPrice == InitPrice /\ [][NextPrice]_vars

-----------------------------------------------------------------------------
(* SpecMatch: the criteria matcher *)

InitMatch ==
    /\ articleRows \in Pages
    /\ priceTable \in PlainTables
    /\ donnees = <<>>
    /\ donnees2 = <<>>
    /\ req \in Criteria
    /\ result = Nil
    /\ result2 = Nil
    /\ matchPc = "page"
    /\ PriceIdle
    /\ LadderIdle
    /\ PageIdle
    /\ WebIdle
    /\ AuxIdle

\* res, err := a.getInfos(ctx)
GetInfos ==
    /\ matchPc = "page"
    /\ donnees' = getInfos(articleRows)
    /\ matchPc' = "extracted"
    /\ UNCHANGED <<articleRows, priceTable, donnees2, result, result2, priceVars,
                   req, ladderVars, pageVars, webVars, auxVars>>

\* card := a.findTheCard(res, quality, langue, edition)
FindTheCard ==
    /\ matchPc = "extracted"
    /\ result' = findTheCard(donnees, req.Quality, req.Language, req.Edition)
    /\ matchPc' = "found"
    /\ UNCHANGED <<articleRows, priceTable, donnees, donnees2, result2, priceVars,
                   req, ladderVars, pageVars, webVars, auxVars>>

\* the same call on the same offers in another order
FindTheCardPermuted ==
    /\ matchPc = "found"
    /\ \E t \in Orderings(donnees) :
           /\ donnees2' = t
           /\ result2' = findTheCard(t, req.Quality, req.Language, req.Edition)
    /\ matchPc' = "found2"
    /\ UNCHANGED <<articleRows, priceTable, donnees, result, priceVars,
                   req, ladderVars, pageVars, webVars, auxVars>>

NextMatch == GetInfos \/ FindTheCard \/ FindTheCardPermuted

SpecMatch == InitMatch /\ [][NextMatch]_vars

-----------------------------------------------------------------------------
(* SpecPage: one attempt, launchLoop with getPage step by step *)

InitPage ==
    /\ moreLoad \in BOOLEAN
    /\ req \in Criteria
    /\ steps = <<>>
    /\ stepErrors = {}
    /\ selector = 0
    /\ banner \in 0..CookieSelectorCount
    /\ consentExpired = FALSE
    /\ consentTried = {}
    /\ clickedSelector = 0
    /\ pageErr = FALSE
    /\ pageOffer = Nil
    /\ pagePc = "navigate"
    /\ PriceIdle
    /\ MatchIdle
    /\ LadderIdle
    /\ WebIdle
    /\ AuxIdle

\* a step of getPage ends, well or not
EndStep(step, ok, buttonExists) ==
    /\ steps' = Append(steps, step)
    /\ stepErrors' = IF ok THEN stepErrors ELSE stepErrors \cup {step}
    /\ IF getPageFails(IF ok THEN stepErrors ELSE stepErrors \cup {step})
       THEN pageErr' = TRUE /\ pagePc' = "returned"
       ELSE pageErr' = pageErr
            /\ pagePc' = StepAfter(step, moreLoad, ok, buttonExists)

\* chromedp.Navigate(url), chromedp.WaitVisible("body")
Navigate ==
    /\ pagePc = "navigate"
    /\ \E ok \in BOOLEAN : EndStep("navigate", ok, FALSE)
    /\ UNCHANGED <<moreLoad, selector, consentVars, pageOffer, priceVars, matchVars, req,
                   ladderVars, webVars, auxVars>>

\* chromedp.Sleep(3 * time.Second), for the bot check to pass
BotCheckWait ==
    /\ pagePc = "botcheck"
    /\ \E ok \in BOOLEAN : EndStep("botcheck", ok, FALSE)
    /\ UNCHANGED <<moreLoad, selector, consentVars, pageOffer, priceVars, matchVars, req,
                   ladderVars, webVars, auxVars>>

\* one turn of the loop over cookieSelectors, all of them run on ctxTimeout:
\* chromedp.Sleep(1s), then chromedp.Click(selector), which waits for a node
\* matching the selector until the context is done. A click that works ends
\* the loop; a selector nothing matches uses up the ten seconds; once the
\* deadline has passed chromedp.Run returns the context's error at once.
ConsentClick ==
    /\ pagePc = "consent"
    /\ selector' = selector + 1
    /\ \E clickOK \in BOOLEAN :
           LET matches == banner = selector + 1
               clicked == ~consentExpired /\ matches /\ clickOK
           IN  /\ consentTried' = IF consentExpired THEN consentTried
                                  ELSE consentTried \cup {selector + 1}
               /\ consentExpired' = (consentExpired \/ ~matches)
               /\ clickedSelector' = IF clicked THEN selector + 1
                                     ELSE clickedSelector
               /\ IF clicked
                  THEN EndStep("consent", TRUE, FALSE)
                  ELSE IF selector + 1 < CookieSelectorCount
                  THEN UNCHANGED <<steps, stepErrors, pageErr, pagePc>>
                  ELSE EndStep("consent", FALSE, FALSE)
    /\ UNCHANGED <<moreLoad, banner, pageOffer, priceVars, matchVars, req,
                   ladderVars, webVars, auxVars>>

\* window.scrollTo(0, document.body.scrollHeight)
Scroll ==
    /\ pagePc = "scroll"
    /\ \E ok \in BOOLEAN : EndStep("scroll", ok, FALSE)
    /\ UNCHANGED <<moreLoad, selector, consentVars, pageOffer, priceVars, matchVars, req,
                   ladderVars, webVars, auxVars>>

\* is the button loadMoreButton there and visible
DetectLoadMore ==
    /\ pagePc = "detect"
    /\ \E ok \in BOOLEAN, buttonExists \in BOOLEAN :
           EndStep("detect", ok, buttonExists)
    /\ UNCHANGED <<moreLoad, selector, consentVars, pageOffer, priceVars, matchVars, req,
                   ladderVars, webVars, auxVars>>

\* document.getElementById('loadMoreButton').click()
ClickLoadMore ==
    /\ pagePc = "click"
    /\ \E ok \in BOOLEAN : EndStep("click", ok, FALSE)
    /\ UNCHANGED <<moreLoad, selector, consentVars, pageOffer, priceVars, matchVars, req,
                   ladderVars, webVars, auxVars>>

\* res, err := a.getInfos(ctx), and card := a.findTheCard(res, ...) after it
GetInfosOfPage ==
    /\ pagePc = "getInfos"
    /\ \E ok \in BOOLEAN : 
           /\ steps' = Append(steps, "getInfos")
           /\ stepErrors' = IF ok THEN stepErrors
                            ELSE stepErrors \cup {"getInfos"}
           /\ pagePc' = StepAfter("getInfos", moreLoad, ok, FALSE)
    /\ UNCHANGED <<moreLoad, selector, consentVars, pageErr, pageOffer, priceVars,
                   matchVars, req, ladderVars, webVars, auxVars>>

FindTheCardOfPage ==
    /\ pagePc = "findTheCard"
    /\ steps' = Append(steps, "findTheCard")
    /\ pageOffer' \in LaunchResults[req]
    /\ pagePc' = StepAfter("findTheCard", moreLoad, TRUE, FALSE)
    /\ UNCHANGED <<moreLoad, selector, consentVars, stepErrors, pageErr, priceVars,
                   matchVars, req, ladderVars, webVars, auxVars>>

NextPage ==
    \/ Navigate
    \/ BotCheckWait
    \/ ConsentClick
    \/ Scroll
    \/ DetectLoadMore
    \/ ClickLoadMore
    \/ GetInfosOfPage
    \/ FindTheCardOfPage

SpecPage == InitPage /\ [][NextPage]_vars

-----------------------------------------------------------------------------
(* SpecWeb: the extraction cascade of extractOffersFromWebView *)

InitWeb ==
    /\ webTables \in WebTables
    /\ webDirect \in WebDirect
    /\ webVisible \in WebVisible
    /\ tableIdx = 1
    /\ ran = <<>>
    /\ webOffers = <<>>
    /\ webPc = "tables"
    /\ PriceIdle
    /\ MatchIdle
    /\ ReqIdle
    /\ LadderIdle
    /\ PageIdle
    /\ AuxIdle

\* one turn of the loop over tableSelectors, for a table that exists
ScanTable ==
    /\ webPc = "tables"
    /\ IF tableIdx > Len(webTables)
       THEN /\ webPc' = "direct"
            /\ UNCHANGED <<tableIdx, ran, webOffers>>
       ELSE /\ webOffers' = webOffers \o webTables[tableIdx]
            /\ ran' = Append(ran, [strategy |-> "table", table |-> tableIdx,
                                   offers |-> webTables[tableIdx]])
            /\ tableIdx' = tableIdx + 1
            /\ webPc' = IF Len(webOffers \o webTables[tableIdx]) > 0
                        THEN "direct" ELSE "tables"
    /\ UNCHANGED <<webTables, webDirect, webVisible, priceVars, matchVars,
                   req, ladderVars, pageVars,
                   auxVars>>

\* offers = a.extractPricesDirectly(ctx, ...)
ScanDirect ==
    /\ webPc = "direct"
    /\ IF StrategyRuns(webOffers)
       THEN /\ webOffers' = webDirect
            /\ ran' = Append(ran, [strategy |-> "direct", table |-> 0,
                                   offers |-> webDirect])
       ELSE UNCHANGED <<ran, webOffers>>
    /\ webPc' = "visible"
    /\ UNCHANGED <<webTables, webDirect, webVisible, tableIdx, priceVars,
                   matchVars, req, ladderVars, pageVars,
                   auxVars>>

\* offers = a.extractAllVisiblePrices(ctx, ...)
ScanVisible ==
    /\ webPc = "visible"
    /\ IF StrategyRuns(webOffers)
       THEN /\ webOffers' = webVisible
            /\ ran' = Append(ran, [strategy |-> "visible", table |-> 0,
                                   offers |-> webVisible])
       ELSE UNCHANGED <<ran, webOffers>>
    /\ webPc' = "returned"
    /\ UNCHANGED <<webTables, webDirect, webVisible, tableIdx, priceVars,
                   matchVars, req, ladderVars, pageVars,
                   auxVars>>

NextWeb == ScanTable \/ ScanDirect \/ ScanVisible

SpecWeb == InitWeb /\ [][NextWeb]_vars

-----------------------------------------------------------------------------
(* SpecStore: the calls on the card store, one at a time *)

InitStore ==
    /\ store = <<>>
    /\ nextId = 1
    /\ now = 0
    /\ op = NoOp
    /\ cardsRead = <<>>
    /\ rIdx = 1
    /\ inFlight = 0
    /\ rescrapLog = <<>>
    /\ stats = NoStats
    /\ rPc = "none"
    /\ PriceIdle
    /\ MatchIdle
    /\ ReqIdle
    /\ LadderIdle
    /\ PageIdle
    /\ WebIdle
    /\ FallbackIdle
    /\ CloudIdle
    /\ ScanIdle
    /\ LateIdle

\* time passes between two calls: CURRENT_TIMESTAMP and time.Now() move on
Tick ==
    /\ rPc = "none"
    /\ now < MaxClock
    /\ now' = now + 1
    /\ UNCHANGED <<store, nextId, op, cardsRead, rIdx, inFlight, rescrapLog,
                   stats, rPc>>
    /\ UNCHANGED <<priceVars, matchVars, req, ladderVars, pageVars, webVars,
                   lateVars, fallbackVars, cloudVars, scanVars>>

\* AddCard(req), from the lookup of the URL to the return, for the URLs given
\* and the results the scrape can give each request
AddCardCall(urls, results) ==
    /\ rPc = "none"
    /\ \E url \in urls, type \in CardTypes, r \in DOMAIN results :
           LET existing == getCardByURL(store, url)
               called == [call |-> "AddCard", type |-> type, result |-> "",
                          scraped |-> FALSE, extracted |-> 0]
           IN  IF existing # NoCard
               THEN \E dbOK \in BOOLEAN :
                        /\ store' = IF dbOK
                                    THEN AddCardExisting(store, existing, type,
                                                         now)
                                    ELSE store
                        /\ op' = [called EXCEPT
                                     !.result =
                                         IF existing.Type = type
                                         THEN "duplicate"
                                         ELSE IF dbOK THEN "moved"
                                         ELSE "move failed"]
                        /\ dbOK \/ existing.Type # type
                        /\ nextId' = nextId
               ELSE \E cardInfo \in results[r], dbOK \in BOOLEAN :
                        /\ cardInfo.failed => dbOK
                        /\ store' = AddCardNew(store,
                                               NewCard(nextId, url, type, r,
                                                       cardInfo, now),
                                               cardInfo, dbOK)
                        /\ nextId' = IF cardInfo.failed \/ ~dbOK THEN nextId
                                     ELSE nextId + 1
                        /\ op' = IF cardInfo.failed
                                 THEN [called EXCEPT !.result = "scrape failed",
                                                     !.scraped = TRUE]
                                 ELSE IF dbOK
                                 THEN [called EXCEPT
                                          !.result = "saved",
                                          !.scraped = TRUE,
                                          !.extracted = cardInfo.extracted]
                                 ELSE [called EXCEPT !.result = "save failed",
                                                     !.scraped = TRUE]
    /\ UNCHANGED <<now, cardsRead, rIdx, inFlight, rescrapLog, stats, rPc>>
    /\ UNCHANGED <<priceVars, matchVars, req, ladderVars, pageVars, webVars,
                   fallbackVars, cloudVars, scanVars>>

AddCard ==
    /\ AddCardCall(StoreUrls, ScrapeResults)
    /\ UNCHANGED lateVars

\* RescrapAllCards: the cards are read, in id order
RescrapRead ==
    /\ rPc = "none"
    /\ cardsRead' = ReadCards(store)
    /\ rIdx' = 1
    /\ rescrapLog' = <<>>
    /\ stats' = [NoStats EXCEPT !.total = Len(store)]
    /\ op' = [NoOp EXCEPT !.call = "RescrapAllCards", !.result = "read"]
    /\ rPc' = "loop"
    /\ UNCHANGED <<store, nextId, now, inFlight>>
    /\ UNCHANGED <<priceVars, matchVars, req, ladderVars, pageVars, webVars,
                   lateVars, fallbackVars, cloudVars, scanVars>>

\* RescrapAllCards: scrapeCardInfo is called for the card at rIdx
RescrapScrape ==
    /\ rPc = "loop"
    /\ rIdx <= Len(cardsRead)
    /\ inFlight' = inFlight + 1
    /\ rescrapLog' = Append(rescrapLog, [id |-> cardsRead[rIdx].ID,
                                         outcome |-> "scraping"])
    /\ op' = [NoOp EXCEPT !.call = "RescrapAllCards", !.result = "scraping",
                          !.scraped = TRUE]
    /\ rPc' = "scraping"
    /\ UNCHANGED <<store, nextId, now, cardsRead, rIdx, stats>>
    /\ UNCHANGED <<priceVars, matchVars, req, ladderVars, pageVars, webVars,
                   lateVars, fallbackVars, cloudVars, scanVars>>

\* RescrapAllCards: scrapeCardInfo has returned; the card is updated, or
\* the error is counted, and the loop goes on
RescrapSave ==
    /\ rPc = "scraping"
    /\ inFlight' = inFlight - 1
    /\ \E cardInfo \in
              ScrapeResults[[Quality |-> cardsRead[rIdx].Quality,
                             Language |-> cardsRead[rIdx].Language,
                             Edition |-> cardsRead[rIdx].Edition]],
          dbOK \in BOOLEAN :
           LET outcome == IF cardInfo.failed THEN "scrape failed"
                          ELSE IF dbOK THEN "updated" ELSE "save failed"
           IN  /\ cardInfo.failed => dbOK
               /\ store' = IF outcome = "updated"
                           THEN updateCard(store, cardsRead[rIdx].ID, cardInfo,
                                           now)
                           ELSE store
               /\ stats' = CountCard(stats, cardsRead[rIdx].ID, outcome)
               /\ rescrapLog' = [rescrapLog EXCEPT
                                    ![Len(rescrapLog)].outcome = outcome]
               /\ op' = [NoOp EXCEPT !.call = "RescrapAllCards",
                                     !.result = outcome, !.scraped = TRUE]
               /\ rIdx' = NextCard(rIdx, Len(cardsRead), outcome # "updated")
    /\ rPc' = "loop"
    /\ UNCHANGED <<nextId, now, cardsRead>>
    /\ UNCHANGED <<priceVars, matchVars, req, ladderVars, pageVars, webVars,
                   lateVars, fallbackVars, cloudVars, scanVars>>

\* RescrapAllCards: return stats, nil
RescrapReturn ==
    /\ rPc = "loop"
    /\ rIdx > Len(cardsRead)
    /\ op' = [NoOp EXCEPT !.call = "RescrapAllCards", !.result = "returned"]
    /\ rPc' = "done"
    /\ UNCHANGED <<store, nextId, now, cardsRead, rIdx, inFlight, rescrapLog,
                   stats>>
    /\ UNCHANGED <<priceVars, matchVars, req, ladderVars, pageVars, webVars,
                   lateVars, fallbackVars, cloudVars, scanVars>>

NextStore ==
    \/ Tick
    \/ AddCard
    \/ RescrapRead
    \/ RescrapScrape
    \/ RescrapSave
    \/ RescrapReturn

SpecStore == InitStore /\ [][NextStore]_vars

-----------------------------------------------------------------------------
(* SpecFallback: findBestOfferWithFallback on offer lists *)

InitFallback ==
    /\ fbOffers \in FallbackOffers
    /\ fbResult = [offer |-> Nil, rung |-> 0]
    /\ fbPc = "start"
    /\ PriceIdle
    /\ MatchIdle
    /\ ReqIdle
    /\ LadderIdle
    /\ PageIdle
    /\ WebIdle
    /\ StoreIdle
    /\ CloudIdle
    /\ ScanIdle
    /\ LateIdle

\* best := a.findBestOfferWithFallback(offers)
FindBestOfferWithFallback ==
    /\ fbPc = "start"
    /\ fbResult' = findBestOfferWithFallback(fbOffers)
    /\ fbPc' = "returned"
    /\ UNCHANGED <<fbOffers, priceVars, matchVars, req, ladderVars, pageVars,
                   webVars, lateVars, storeVars, cloudVars, scanVars>>

NextFallback == FindBestOfferWithFallback

SpecFallback == InitFallback /\ [][NextFallback]_vars

-----------------------------------------------------------------------------
(* SpecCloudflare: waitForCloudflare, poll by poll *)

\* the page: the first poll whose title is free of "Just a moment", and the
\* first poll at which chromedp.Title fails; CloudflarePolls + 1 for never
InitCloudflare ==
    /\ clearsAt \in 1..(CloudflarePolls + 1)
    /\ failsAt \in 1..(CloudflarePolls + 1)
    /\ polls = 0
    /\ cfSlept = 0
    /\ cfResult = "none"
    /\ cfPc = "poll"
    /\ PriceIdle
    /\ MatchIdle
    /\ ReqIdle
    /\ LadderIdle
    /\ PageIdle
    /\ WebIdle
    /\ StoreIdle
    /\ FallbackIdle
    /\ ScanIdle
    /\ LateIdle

\* one turn of the loop: read the title, return or sleep one second
PollTitle ==
    /\ cfPc = "poll"
    /\ polls < CloudflarePolls
    /\ polls' = polls + 1
    /\ IF failsAt = polls + 1
       THEN /\ cfResult' = "error"
            /\ cfPc' = "returned"
            /\ cfSlept' = cfSlept
       ELSE IF clearsAt <= polls + 1
       THEN /\ cfResult' = "ok"
            /\ cfPc' = "returned"
            /\ cfSlept' = cfSlept
       ELSE /\ cfSlept' = cfSlept + 1
            /\ UNCHANGED <<cfResult, cfPc>>
    /\ UNCHANGED <<clearsAt, failsAt, priceVars, matchVars, req, ladderVars,
                   pageVars, webVars, lateVars, storeVars, fallbackVars, scanVars>>

\* the loop has ended: "Timeout en attendant Cloudflare"
GiveUpWaiting ==
    /\ cfPc = "poll"
    /\ polls >= CloudflarePolls
    /\ cfResult' = AfterLastPoll
    /\ cfPc' = "returned"
    /\ UNCHANGED <<clearsAt, failsAt, polls, cfSlept, priceVars, matchVars,
                   req, ladderVars, pageVars, webVars, lateVars, storeVars, fallbackVars,
                   scanVars>>

NextCloudflare == PollTitle \/ GiveUpWaiting

SpecCloudflare == InitCloudflare /\ [][NextCloudflare]_vars

\* the goroutine that waits is scheduled until the function returns
FairCloudflare == SpecCloudflare /\ WF_vars(NextCloudflare)

-----------------------------------------------------------------------------
(* SpecScan: the two text scans on the amounts of a page *)

InitScan ==
    /\ scanPrices \in ScanPages
    /\ scanInRows \in BOOLEAN
    /\ directOffers = <<>>
    /\ visibleOffers = <<>>
    /\ scanPc = "direct"
    /\ PriceIdle
    /\ MatchIdle
    /\ ReqIdle
    /\ LadderIdle
    /\ PageIdle
    /\ WebIdle
    /\ StoreIdle
    /\ FallbackIdle
    /\ CloudIdle
    /\ LateIdle

\* offers = a.extractPricesDirectly(ctx, ...)
ExtractPricesDirectly ==
    /\ scanPc = "direct"
    /\ directOffers' = extractPricesDirectly(scanInRows, scanPrices)
    /\ scanPc' = "visible"
    /\ UNCHANGED <<scanPrices, scanInRows, visibleOffers, priceVars, matchVars,
                   req, ladderVars, pageVars, webVars, lateVars, storeVars, fallbackVars,
                   cloudVars>>

\* offers = a.extractAllVisiblePrices(ctx, ...)
ExtractAllVisiblePrices ==
    /\ scanPc = "visible"
    /\ visibleOffers' = extractAllVisiblePrices(scanPrices)
    /\ scanPc' = "returned"
    /\ UNCHANGED <<scanPrices, scanInRows, directOffers, priceVars, matchVars,
                   req, ladderVars, pageVars, webVars, lateVars, storeVars, fallbackVars,
                   cloudVars>>

NextScan == ExtractPricesDirectly \/ ExtractAllVisiblePrices

SpecScan == InitScan /\ [][NextScan]_vars

-----------------------------------------------------------------------------
(* SpecInfer: the keyword inference, each function called twice on a text *)

InitInfer ==
    /\ context \in Contexts
    /\ qualityOut = ""
    /\ qualityAgain = ""
    /\ languageOut = ""
    /\ languageAgain = ""
    /\ inferPc = "quality"
    /\ GetStatsIdle
    /\ CallIdle
    /\ PriceIdle
    /\ MatchIdle
    /\ ReqIdle
    /\ LadderIdle
    /\ PageIdle
    /\ WebIdle
    /\ StoreIdle
    /\ FallbackIdle
    /\ CloudIdle
    /\ ScanIdle

\* offerQuality = extractQualityFromContext(context)
ExtractQuality ==
    /\ inferPc = "quality"
    /\ qualityOut' \in extractQualityFromContext(context)
    /\ inferPc' = "quality2"
    /\ UNCHANGED <<context, qualityAgain, languageOut, languageAgain,
                   getStatsVars, callVars, priceVars, matchVars, req, ladderVars,
                   pageVars, webVars, storeVars, fallbackVars, cloudVars,
                   scanVars>>

\* the same call on the same text, as the next strategy or the next scrape
\* of the page makes it
ExtractQualityAgain ==
    /\ inferPc = "quality2"
    /\ qualityAgain' \in extractQualityFromContext(context)
    /\ inferPc' = "language"
    /\ UNCHANGED <<context, qualityOut, languageOut, languageAgain,
                   getStatsVars, callVars, priceVars, matchVars, req, ladderVars,
                   pageVars, webVars, storeVars, fallbackVars, cloudVars,
                   scanVars>>

\* offerLanguage = extractLanguageFromContext(context)
ExtractLanguage ==
    /\ inferPc = "language"
    /\ languageOut' \in extractLanguageFromContext(context)
    /\ inferPc' = "language2"
    /\ UNCHANGED <<context, qualityOut, qualityAgain, languageAgain,
                   getStatsVars, callVars, priceVars, matchVars, req, ladderVars,
                   pageVars, webVars, storeVars, fallbackVars, cloudVars,
                   scanVars>>

ExtractLanguageAgain ==
    /\ inferPc = "language2"
    /\ languageAgain' \in extractLanguageFromContext(context)
    /\ inferPc' = "returned"
    /\ UNCHANGED <<context, qualityOut, qualityAgain, languageOut,
                   getStatsVars, callVars, priceVars, matchVars, req, ladderVars,
                   pageVars, webVars, storeVars, fallbackVars, cloudVars,
                   scanVars>>

NextInfer ==
    \/ ExtractQuality
    \/ ExtractQualityAgain
    \/ ExtractLanguage
    \/ ExtractLanguageAgain

SpecInfer == InitInfer /\ [][NextInfer]_vars

-----------------------------------------------------------------------------
(* SpecStats: GetStats among AddCard, MoveCard and DeleteCard calls; the *)
(* two queries of GetStats are two steps *)

\* the AddCard calls made here: one request, whose scrape fails or finds the
\* offer on a one-row page
StatsCriteria == {[Quality |-> "NM", Language |-> "English", Edition |-> FALSE]}
StatsResults ==
    [r \in StatsCriteria |->
        {ScrapeFailure} \cup
        {scrapeCardInfo(<<row>>, r, Pikachu, "Base Set", "Rare") :
             row \in LadderRows}]

InitStats ==
    /\ store = <<>>
    /\ nextId = 1
    /\ now = 0
    /\ op = NoOp
    /\ cardsRead = <<>>
    /\ rIdx = 1
    /\ inFlight = 0
    /\ rescrapLog = <<>>
    /\ stats = NoStats
    /\ rPc = "none"
    /\ gsPc = "none"
    /\ gsFirst = NoCount
    /\ gsChanged = "no"
    /\ gsOut = NoGetStats
    /\ CallIdle
    /\ InferIdle
    /\ PriceIdle
    /\ MatchIdle
    /\ ReqIdle
    /\ LadderIdle
    /\ PageIdle
    /\ WebIdle
    /\ FallbackIdle
    /\ CloudIdle
    /\ ScanIdle

\* what a write between the two queries of GetStats adds to gsChanged;
\* "moved" is kept for the writes of MoveCard
WriteSeen(before, after, byMoveCard) ==
    IF gsPc # "wishlist" \/ after = before THEN gsChanged
    ELSE IF byMoveCard /\ gsChanged # "other" /\ OnlyMoved(before, after)
    THEN "moved"
    ELSE "other"

AddCardOfStats ==
    /\ nextId <= MaxCardId
    /\ AddCardCall(StoreUrls, StatsResults)
    /\ gsChanged' = WriteSeen(store, store', FALSE)
    /\ UNCHANGED <<gsPc, gsFirst, gsOut, inferVars, callVars>>

\* MoveCard(cardID, newType): the UPDATE of moveCard, whatever newType is
MoveCard ==
    /\ \E id \in 1..MaxCardId, newType \in MoveTypes, dbOK \in BOOLEAN :
           /\ store' = IF dbOK THEN moveCard(store, id, newType, now)
                       ELSE store
           /\ op' = [NoOp EXCEPT !.call = "MoveCard", !.type = newType,
                                 !.result = IF dbOK THEN "ok" ELSE "error"]
    /\ UNCHANGED <<nextId, now, cardsRead, rIdx, inFlight, rescrapLog, stats,
                   rPc>>
    /\ UNCHANGED <<priceVars, matchVars, req, ladderVars, pageVars, webVars,
                   fallbackVars, cloudVars, scanVars>>
    /\ gsChanged' = WriteSeen(store, store', TRUE)
    /\ UNCHANGED <<gsPc, gsFirst, gsOut, inferVars, callVars>>

\* DeleteCard(cardID)
DeleteCard ==
    /\ \E id \in 1..MaxCardId, dbOK \in BOOLEAN :
           /\ store' = IF dbOK THEN deleteCard(store, id) ELSE store
           /\ op' = [NoOp EXCEPT !.call = "DeleteCard",
                                 !.result = IF dbOK THEN "ok" ELSE "error"]
    /\ UNCHANGED <<nextId, now, cardsRead, rIdx, inFlight, rescrapLog, stats,
                   rPc>>
    /\ UNCHANGED <<priceVars, matchVars, req, ladderVars, pageVars, webVars,
                   fallbackVars, cloudVars, scanVars>>
    /\ gsChanged' = WriteSeen(store, store', FALSE)
    /\ UNCHANGED <<gsPc, gsFirst, gsOut, inferVars, callVars>>

\* GetStats: the map is made, empty, and the query on type = 'collection'
\* runs; its error ends the call
GetStatsCollection ==
    /\ gsPc = "none"
    /\ \E dbOK \in BOOLEAN :
           /\ gsFirst' = IF dbOK THEN CountOfType(store, "collection")
                         ELSE NoCount
           /\ gsPc' = IF dbOK THEN "wishlist" ELSE "none"
    /\ gsChanged' = "no"
    /\ gsOut' = NoGetStats
    /\ UNCHANGED <<inferVars, callVars, storeVars, priceVars, matchVars, req,
                   ladderVars, pageVars, webVars, fallbackVars, cloudVars,
                   scanVars>>

\* GetStats: the query on type = 'wishlist', and the return of the map, or
\* of the error of the query
GetStatsWishlist ==
    /\ gsPc = "wishlist"
    /\ \E dbOK \in BOOLEAN :
           gsOut' = IF dbOK
                    THEN GetStatsMap(gsFirst, CountOfType(store, "wishlist"))
                    ELSE NoGetStats
    /\ gsFirst' = NoCount
    /\ gsChanged' = "no"
    /\ gsPc' = "none"
    /\ UNCHANGED <<inferVars, callVars, storeVars, priceVars, matchVars, req,
                   ladderVars, pageVars, webVars, fallbackVars, cloudVars,
                   scanVars>>

NextStats ==
    \/ AddCardOfStats
    \/ MoveCard
    \/ DeleteCard
    \/ GetStatsCollection
    \/ GetStatsWishlist

SpecStats == InitStats /\ [][NextStats]_vars

-----------------------------------------------------------------------------
(* SpecRefresh: UpdateCardPriceFixed on the cards AddCard stored *)

InitRefresh ==
    /\ store = <<>>
    /\ nextId = 1
    /\ now = 0
    /\ op = NoOp
    /\ cardsRead = <<>>
    /\ rIdx = 1
    /\ inFlight = 0
    /\ rescrapLog = <<>>
    /\ stats = NoStats
    /\ rPc = "none"
    /\ refresh = NoRefresh
    /\ calls = <<>>
    /\ GetStatsIdle
    /\ InferIdle
    /\ PriceIdle
    /\ MatchIdle
    /\ ReqIdle
    /\ LadderIdle
    /\ PageIdle
    /\ WebIdle
    /\ FallbackIdle
    /\ CloudIdle
    /\ ScanIdle

AddCardOfRefresh ==
    /\ nextId <= MaxCardId
    /\ AddCardCall(StoreUrls, [r \in StoreCriteria |-> RowResults[r]])
    /\ UNCHANGED lateVars

\* UpdateCardPriceFixed(cardID)
UpdateCardPriceFixed ==
    /\ \E id \in 1..MaxCardId :
           LET saved == getCardByID(store, id)
               called == [NoOp EXCEPT !.call = "UpdateCardPriceFixed"]
           IN  IF saved = NoCard
               THEN /\ op' = [called EXCEPT !.result = "not found"]
                    /\ UNCHANGED <<store, refresh>>
               ELSE \E cardInfo \in RowResults[RefreshRequest(saved)],
                       dbOK \in BOOLEAN :
                        /\ cardInfo.failed => dbOK
                        /\ IF cardInfo.failed \/ ~dbOK
                           THEN UNCHANGED <<store, refresh>>
                           ELSE /\ store' = updatePrice(store, id, cardInfo,
                                                        now)
                                /\ refresh' =
                                       [id |-> id,
                                        used |-> RefreshRequest(saved),
                                        chosen |->
                                            [Quality |->
                                                 cardInfo.Offers[1].Mint,
                                             Language |->
                                                 cardInfo.Offers[1].Language,
                                             Edition |->
                                                 cardInfo.Offers[1].Edition]]
                        /\ op' = [called EXCEPT
                                     !.scraped = TRUE,
                                     !.result =
                                         IF cardInfo.failed
                                         THEN "scrape failed"
                                         ELSE IF dbOK THEN "updated"
                                         ELSE "save failed"]
    /\ UNCHANGED <<nextId, now, cardsRead, rIdx, inFlight, rescrapLog, stats,
                   rPc, calls>>
    /\ UNCHANGED <<inferVars, getStatsVars, priceVars, matchVars, req,
                   ladderVars, pageVars, webVars, fallbackVars, cloudVars,
                   scanVars>>

NextRefresh ==
    \/ AddCardOfRefresh
    \/ UpdateCardPriceFixed

SpecRefresh == InitRefresh /\ [][NextRefresh]_vars

-----------------------------------------------------------------------------
(* SpecCalls: two AddCard calls side by side, each statement of a call a *)
(* step, among MoveCard, DeleteCard and the UPDATE of RescrapAllCards *)

InitCalls ==
    /\ store = <<>>
    /\ nextId = 1
    /\ now = 0
    /\ op = NoOp
    /\ cardsRead = <<>>
    /\ rIdx = 1
    /\ inFlight = 0
    /\ rescrapLog = <<>>
    /\ stats = NoStats
    /\ rPc = "none"
    /\ refresh = NoRefresh
    /\ calls = [s \in CallSlots |-> IdleCall]
    /\ GetStatsIdle
    /\ InferIdle
    /\ PriceIdle
    /\ MatchIdle
    /\ ReqIdle
    /\ LadderIdle
    /\ PageIdle
    /\ WebIdle
    /\ FallbackIdle
    /\ CloudIdle
    /\ ScanIdle

\* AddCard: getCardByURL, and for a URL stored already the duplicate error
\* or the move
AddCardLookup(s) ==
    /\ calls[s].pc = "idle"
    /\ \E url \in StoreUrls, type \in CardTypes, r \in StatsCriteria :
           LET existing == getCardByURL(store, url)
               called == [IdleCall EXCEPT !.url = url, !.type = type,
                                          !.criteria = r]
           IN  IF existing # NoCard
               THEN \E dbOK \in BOOLEAN :
                        /\ dbOK \/ existing.Type # type
                        /\ store' = IF dbOK
                                    THEN AddCardExisting(store, existing, type,
                                                         now)
                                    ELSE store
                        /\ calls' = [calls EXCEPT ![s] =
                                        [called EXCEPT
                                            !.pc = "done",
                                            !.result =
                                                IF existing.Type = type
                                                THEN "duplicate"
                                                ELSE IF dbOK THEN "moved"
                                                ELSE "move failed"]]
               ELSE /\ calls' = [calls EXCEPT ![s] =
                                    [called EXCEPT !.pc = "scraping"]]
                    /\ store' = store
    /\ UNCHANGED <<nextId, now, op, cardsRead, rIdx, inFlight, rescrapLog,
                   stats, rPc, refresh>>
    /\ UNCHANGED <<inferVars, getStatsVars, priceVars, matchVars, req,
                   ladderVars, pageVars, webVars, fallbackVars, cloudVars,
                   scanVars>>

\* AddCard: scrapeCardInfo, whose error is returned
AddCardScrape(s) ==
    /\ calls[s].pc = "scraping"
    /\ \E cardInfo \in RowResults[calls[s].criteria] :
           calls' = [calls EXCEPT ![s] =
                        IF cardInfo.failed
                        THEN [@ EXCEPT !.pc = "done",
                                       !.result = "scrape failed"]
                        ELSE [@ EXCEPT !.pc = "insert", !.info = cardInfo]]
    /\ UNCHANGED <<storeVars, refresh>>
    /\ UNCHANGED <<inferVars, getStatsVars, priceVars, matchVars, req,
                   ladderVars, pageVars, webVars, fallbackVars, cloudVars,
                   scanVars>>

\* AddCard: the INSERT, and the return of the card or of the error
AddCardInsert(s) ==
    /\ calls[s].pc = "insert"
    /\ \E dbOK \in BOOLEAN :
           /\ store' = insertCard(store,
                                  NewCard(nextId, calls[s].url, calls[s].type,
                                          calls[s].criteria, calls[s].info,
                                          now),
                                  dbOK)
           /\ nextId' = IF store' # store THEN nextId + 1 ELSE nextId
           /\ calls' = [calls EXCEPT ![s] =
                           [@ EXCEPT !.pc = "done",
                                     !.result = IF store' # store THEN "saved"
                                                ELSE IF dbOK THEN "not unique"
                                                ELSE "save failed"]]
    /\ UNCHANGED <<now, op, cardsRead, rIdx, inFlight, rescrapLog, stats, rPc,
                   refresh>>
    /\ UNCHANGED <<inferVars, getStatsVars, priceVars, matchVars, req,
                   ladderVars, pageVars, webVars, fallbackVars, cloudVars,
                   scanVars>>

\* RescrapAllCards: the UPDATE of a card it read, which by then may be
\* deleted
RescrapUpdate ==
    /\ \E id \in 1..MaxCardId, r \in StatsCriteria :
           \E cardInfo \in RowResults[r] \ {ScrapeFailure} :
               store' = updateCard(store, id, cardInfo, now)
    /\ op' = [NoOp EXCEPT !.call = "RescrapAllCards", !.result = "updated",
                          !.scraped = TRUE]
    /\ UNCHANGED <<nextId, now, cardsRead, rIdx, inFlight, rescrapLog, stats,
                   rPc>>
    /\ UNCHANGED <<lateVars, priceVars, matchVars, req, ladderVars, pageVars,
                   webVars, fallbackVars, cloudVars, scanVars>>

NextCalls ==
    \/ \E s \in CallSlots : AddCardLookup(s)
    \/ \E s \in CallSlots : AddCardScrape(s)
    \/ \E s \in CallSlots : AddCardInsert(s)
    \/ MoveCard
    \/ DeleteCard
    \/ RescrapUpdate

SpecCalls == InitCalls /\ [][NextCalls]_vars

-----------------------------------------------------------------------------
(* Spec: the acquisition ladder of scrapeCardInfo, and AddCard's error *)

Init ==
    /\ variant \in Variants
    /\ req \in Criteria
    /\ mode = 1
    /\ attempt = 1
    /\ connected = {}
    /\ attempts = <<>>
    /\ failures = <<>>
    /\ session = IF variant = "app" THEN 1 ELSE 0
    /\ live = IF variant = "app" THEN {1} ELSE {}
    /\ opened = IF variant = "app" THEN 1 ELSE 0
    /\ usedSession = <<>>
    /\ cancelled = FALSE
    /\ startedAfterCancel = FALSE
    /\ found = Nil
    /\ card = Nil
    /\ info = NoInfo
    /\ enrichment = NoEnrichment
    /\ err = NoError
    /\ addErr = NoAddError
    /\ waits = <<>>
    /\ profileWaits = <<>>
    /\ ladderPc = IF variant = "app" THEN "attempt" ELSE "connect"
    /\ PriceIdle
    /\ MatchIdle
    /\ PageIdle
    /\ WebIdle
    /\ AuxIdle

\* the function that owns the session returns: defer ctxCancel()
CloseSession ==
    /\ session' = 0
    /\ live' = {}

\* the profile in use ends without an offer, after writing the log lines:
\* the next profile, or the end of the loop with the error e
ProfileFails(e, lines) ==
    /\ failures' = failures \o lines \o
                       (IF variant \in {"modes", "windows"}
                        THEN ModeFailedLines(Profiles(variant)[mode])
                        ELSE <<>>)
    /\ CloseSession
    /\ IF mode < Len(Profiles(variant))
       THEN /\ mode' = mode + 1
            /\ attempt' = 1
            /\ profileWaits' = Append(profileWaits, ModeWait)
            /\ ladderPc' = "connect"
            /\ err' = err
       ELSE /\ UNCHANGED <<mode, attempt, profileWaits>>
            /\ IF variant = "windows"
               THEN ladderPc' = "webview" /\ err' = err
               ELSE ladderPc' = "scraped" /\ err' = e

\* testBrowserConnectionPatient, testBrowserConnectionForMode,
\* testBrowserConnectionSimple, with the browser context their caller makes
TestBrowserConnection ==
    /\ ladderPc = "connect"
    /\ startedAfterCancel' = (startedAfterCancel \/ cancelled)
    /\ \E ok \in BOOLEAN, cause \in Causes :
           IF ok
           THEN /\ connected' = connected \cup {Profiles(variant)[mode]}
                /\ opened' = opened + SessionsOfTest(variant, TRUE)
                /\ session' = opened + SessionsOfTest(variant, TRUE)
                /\ live' = {opened + SessionsOfTest(variant, TRUE)}
                /\ ladderPc' = "attempt"
                /\ UNCHANGED <<mode, attempt, err, failures, profileWaits>>
           ELSE /\ connected' = connected
                /\ opened' = opened + SessionsOfTest(variant, FALSE)
                /\ ProfileFails(IF variant = "standard"
                                THEN ErrorOf({NoBrowserPhrase} \cup cause)
                                ELSE AllModesFailedError, <<>>)
    /\ UNCHANGED <<variant, attempts, usedSession, cancelled, found, card,
                   info, enrichment, addErr, waits, priceVars, matchVars,
                   pageVars, webVars, auxVars, req>>

\* one launchLoop or launchLoopPatient call and what its caller does with
\* the result; the page read by the attempt is any of LadderPages
LaunchLoop ==
    /\ ladderPc = "attempt"
    /\ startedAfterCancel' = (startedAfterCancel \/ cancelled)
    /\ \E navigation \in {"ok", "failed", "never"}, infosOK \in BOOLEAN :
           IF navigation = "never" /\ ~NavigationTimeout(variant)
           THEN /\ ladderPc' = "blocked"
                /\ UNCHANGED <<mode, attempt, connected, attempts, failures,
                               session, live, usedSession, found, card, info,
                               enrichment, err, waits, profileWaits>>
           ELSE \E offer \in IF navigation = "ok" /\ infosOK
                            THEN LaunchResults[req]
                            ELSE {launchLoop(FALSE, infosOK, <<>>,
                                             req.Quality, req.Language,
                                             req.Edition)} :
                  /\ attempts' =
                         Append(attempts,
                                [profile |-> Profiles(variant)[mode],
                                 load |-> Loads(variant)[attempt],
                                 hit |-> offer # Nil])
                  /\ usedSession' = Append(usedSession, session)
                  /\ waits' = Append(waits, WaitBefore(variant, attempt))
                  /\ connected' = IF variant = "app" /\ navigation = "ok"
                                  THEN connected \cup {"default"}
                                  ELSE connected
                  /\ IF offer # Nil
                     THEN /\ found' = offer
                          /\ \E navOK \in BOOLEAN, name \in Names,
                                evalOK \in BOOLEAN, setFromPage \in SetNames,
                                rarityFromPage \in Rarities :
                                 /\ ~evalOK =>
                                        setFromPage = "" /\ rarityFromPage = ""
                                 /\ card' = enrich(offer, setFromPage,
                                                   rarityFromPage)
                                 /\ info' = extractCardDetails(
                                                offer, name, setFromPage,
                                                rarityFromPage)
                                 /\ enrichment' = [nav |-> navOK,
                                                   name |-> name,
                                                   eval |-> evalOK]
                                 /\ err' = enrichmentError(navOK, name, evalOK)
                          /\ CloseSession
                          /\ ladderPc' = "scraped"
                          /\ UNCHANGED <<mode, attempt, failures, profileWaits>>
                     ELSE /\ UNCHANGED <<found, card, info, enrichment>>
                          /\ IF attempt < Len(Loads(variant))
                             THEN /\ attempt' = attempt + 1
                                  /\ failures' = failures \o
                                         TryFailedLines(variant,
                                             Profiles(variant)[mode], attempt)
                                  /\ UNCHANGED <<mode, ladderPc, err, session,
                                                 live, profileWaits>>
                             ELSE ProfileFails(
                                      IF variant = "modes"
                                      THEN AllModesFailedError
                                      ELSE NoMatchError(req),
                                      TryFailedLines(variant,
                                          Profiles(variant)[mode], attempt))
    /\ UNCHANGED <<variant, opened, cancelled, addErr, priceVars, matchVars,
                   pageVars, webVars, auxVars, req>>

\* scrapeCardInfoWithWails, after every browser profile has failed
WebViewFallback ==
    /\ ladderPc = "webview"
    /\ startedAfterCancel' = (startedAfterCancel \/ cancelled)
    /\ opened' = opened + 1
    /\ CloseSession
    /\ \E engineOK \in BOOLEAN, navOK \in BOOLEAN, cause \in Causes :
           IF ~engineOK \/ ~navOK
           THEN /\ err' = ErrorOf(cause)
                /\ UNCHANGED <<found, card, info>>
           ELSE \E best \in WebViewResults :
                    IF best = Nil
                    THEN /\ err' = NoMatchError(req)
                         /\ UNCHANGED <<found, card, info>>
                    ELSE /\ err' = err
                         /\ found' = best
                         /\ card' = best
                         /\ info' = [Name |-> <<>>, Set |-> "Extension CardMarket",
                                     Rarity |-> "Rarete CardMarket",
                                     Price |-> best.Price,
                                     PriceNum |-> best.PriceNum]
    /\ ladderPc' = "scraped"
    /\ UNCHANGED <<variant, mode, attempt, connected, attempts, failures,
                   usedSession, cancelled, enrichment, addErr, waits,
                   profileWaits, priceVars, matchVars, pageVars, webVars,
                   auxVars, req>>

\* AddCard, from the return of scrapeCardInfo to its own return
AddCardReturns ==
    /\ ladderPc = "scraped"
    /\ variant # "windows"
    /\ addErr' = AddCardError(variant, err, req)
    /\ ladderPc' = "done"
    /\ UNCHANGED <<variant, mode, attempt, connected, attempts, failures,
                   session, live, opened, usedSession, cancelled,
                   startedAfterCancel, found, card, info, enrichment, err,
                   waits, profileWaits, priceVars, matchVars, pageVars,
                   webVars, auxVars, req>>

\* the context given to OnStartup is cancelled while the scrape runs; the
\* browser contexts of the scrape are made from context.Background()
CancelContext ==
    /\ ladderPc \in {"connect", "attempt", "webview"}
    /\ ~cancelled
    /\ cancelled' = TRUE
    /\ UNCHANGED <<variant, mode, attempt, connected, attempts, failures,
                   session, live, opened, usedSession, startedAfterCancel,
                   found, card, info, enrichment, err, addErr, ladderPc,
                   waits, profileWaits, priceVars, matchVars, pageVars,
                   webVars, auxVars, req>>

Next ==
    \/ TestBrowserConnection
    \/ LaunchLoop
    \/ WebViewFallback
    \/ AddCardReturns
    \/ CancelContext

Spec == Init /\ [][Next]_vars

\* no step of the scrape is postponed forever
FairSpec == Spec /\ WF_vars(Next)

-----------------------------------------------------------------------------
(* Claims on the price parser, under SpecPrice *)

Parsed == pricePc \in {"parsed", "reparsed"}

\* C4: for every well-formed price text, in comma-decimal or dot-decimal
\* convention, with or without thousands grouping, extractNumericPrice
\* returns the amount the text denotes ("3,50 EUR" is 3.50, "15.000,00EUR" is
\* 15000.00, "1234.56EUR" is 1234.56, "15.000EUR" is 15000.00).
C4_WellFormedPriceIsItsAmount ==
    (Parsed /\ wellFormed # NotAPrice) => price = Amount(wellFormed)

\* The number of a price text: the text up to its currency suffix.
NumberPart(s) == SelectSeq(s, LAMBDA c : IsDigit(c) \/ IsSep(c))

\* The reading of a number in which the rightmost separator is the decimal
\* separator and every other separator is grouping.
RightmostIsDecimal(num) ==
    LET last == CHOOSE i \in 1..Len(num) :
                    IsSep(num[i]) /\ \A j \in (i + 1)..Len(num) : ~IsSep(num[j])
    IN  Norm(IntOf(SelectSeq(num, IsDigit)), Len(num) - last)

\* C5: for every price text in which both '.' and ',' appear,
\* extractNumericPrice takes the rightmost of the two as the decimal
\* separator and strips the other as thousands grouping ("15.000,50" is
\* 15000.50 and "1,234.56" is 1234.56).
C5_RightmostSeparatorIsDecimal ==
    (Parsed /\ wellFormed # NotAPrice
        /\ Contains(priceText, ".") /\ Contains(priceText, ","))
    => price = RightmostIsDecimal(NumberPart(priceText))

\* |a - b| <= half a cent, what "%.2f" rounds away
WithinHalfCent(a, b) ==
    LET scale == Pow10(a.k + b.k)
        x == a.n * Pow10(b.k)
        y == b.n * Pow10(a.k)
    IN  200 * (IF x >= y THEN x - y ELSE y - x) <= scale

\* C6: extractNumericPrice is idempotent on its own output: for every price
\* text, the price written with "%.2f" and parsed again is the same price.
C6_ParseFormatParse ==
    pricePc = "reparsed" => WithinHalfCent(reparsed, price)

-----------------------------------------------------------------------------
(* Claims on the criteria matcher, under SpecMatch *)

HasTriple(o) ==
    /\ o.Mint = req.Quality
    /\ o.Language = req.Language
    /\ o.Edition = req.Edition

Matching(rows) == {i \in 1..Len(rows) : HasTriple(rows[i])}

\* C1: findTheCard returns an offer only if its Mint, Language and Edition
\* equal the criteria; it returns nil exactly when no offer of the list has
\* that triple; when exactly one offer matches, that offer is returned.
C1_ExactTripleMatch ==
    matchPc \in {"found", "found2"} =>
        /\ result # Nil =>
               HasTriple(result) /\ \E i \in 1..Len(donnees) : donnees[i] = result
        /\ result = Nil <=> Matching(donnees) = {}
        /\ \A i \in 1..Len(donnees) : Matching(donnees) = {i} => result = donnees[i]

\* C1 witness: the only matching offer is the second of the list and is returned
C1_Witness ==
    /\ matchPc = "found"
    /\ Matching(donnees) = {2}
    /\ result = donnees[2]

\* C3 as stated: for two offer lists that are permutations of each other the
\* two calls return the same result, also when several offers match.
C3_SameResultInAnyOrder ==
    matchPc = "found2" => result2 = result

\* C3 amended: the two calls return both nil, or both an offer with the
\* criteria triple, each the first matching offer of its own list; the two
\* offers are equal in every field when the matching offers are all equal.
C3_SameResultWhenMatchesAgree ==
    matchPc = "found2" =>
        /\ result = Nil <=> result2 = Nil
        /\ result # Nil => HasTriple(result) /\ HasTriple(result2)
        /\ \A i \in Matching(donnees2) :
               (\A h \in Matching(donnees2) : i <= h) => result2 = donnees2[i]
        /\ (\A i, j \in Matching(donnees) : donnees[i] = donnees[j])
               => result2 = result

\* C3 witness: the lists differ in order, one offer matches, both calls return it
C3_Witness ==
    /\ matchPc = "found2"
    /\ donnees2 # donnees
    /\ result # Nil
    /\ result2 = result

NoDigit(text) == \A i \in 1..Len(text) : ~IsDigit(text[i])

Successful(page) == SelectSeq(page, LAMBDA r : r.success)

\* C7: when the price text of a row has no numeric substring,
\* extractNumericPrice returns 0.0 and getInfos keeps the row's offer, with
\* PriceNum 0.0, in the list it returns: the list has one offer per
\* successfully read row, in page order, and findTheCard returns the unpriced
\* offer when it is the first with the criteria triple.
C7_UnpricedOfferIsKept ==
    matchPc \in {"extracted", "found"} =>
        /\ Len(donnees) = Len(Successful(articleRows))
        /\ \A i \in 1..Len(donnees) :
               LET row == Successful(articleRows)[i]
               IN  /\ donnees[i].Price = row.price
                   /\ donnees[i].Mint = row.mint
                   /\ donnees[i].Language = row.langue
                   /\ donnees[i].Edition = row.edition
                   /\ NoDigit(row.price) =>
                          /\ extractNumericPrice(row.price) = Zero
                          /\ donnees[i].PriceNum = Zero
                          /\ (/\ matchPc = "found"
                              /\ HasTriple(donnees[i])
                              /\ \A h \in 1..(i - 1) : ~HasTriple(donnees[h]))
                                 => result = donnees[i]

\* C7 witness: the page has a priced row without the criteria triple and then
\* an unpriced row with it; the unpriced offer, PriceNum 0.0, is returned
C7_Witness ==
    /\ matchPc = "found"
    /\ Len(articleRows) = 2
    /\ ~NoDigit(articleRows[1].price)
    /\ articleRows[2].success
    /\ NoDigit(articleRows[2].price)
    /\ result # Nil
    /\ result = donnees[2]
    /\ result.PriceNum = Zero

\* C18: when the page has no article row but holds a plain table of prices,
\* getInfos returns at least one offer, read from that table.
C18_PlainTableFallsThrough ==
    (/\ matchPc # "page"
     /\ articleRows = <<>>
     /\ priceTable # <<>>) => Len(donnees) >= 1

\* the number of rows among the first j that were read successfully
C29_Kept(j) == Len(Successful(SubSeq(articleRows, 1, j)))

\* C29: in getInfos an extraction error on a row skips that row only: every
\* row read successfully is in the returned list, at the position given by
\* the successful rows before it, whether or not an earlier row failed, and
\* the list holds nothing else.
C29_FailedRowIsSkippedOnly ==
    matchPc \in {"extracted", "found"} =>
        /\ Len(donnees) = C29_Kept(Len(articleRows))
        /\ \A j \in 1..Len(articleRows) :
               articleRows[j].success =>
                   /\ C29_Kept(j) <= Len(donnees)
                   /\ donnees[C29_Kept(j)] =
                          CardOffer(articleRows[j].mint, articleRows[j].langue,
                                    articleRows[j].edition, articleRows[j].price)

\* C29 witness: the first row failed and the second row is the one offer of
\* the list
C29_Witness ==
    /\ matchPc = "extracted"
    /\ Len(articleRows) = 2
    /\ ~articleRows[1].success
    /\ articleRows[2].success
    /\ Len(donnees) = 1
    /\ donnees[1].Mint = articleRows[2].mint
    /\ donnees[1].Price = articleRows[2].price

-----------------------------------------------------------------------------
(* Claims on the acquisition ladder, under Spec *)

Hit == \E i \in 1..Len(attempts) : attempts[i].hit

Returned == ladderPc \in {"scraped", "done"} /\ ~err.failed

\* C2: on every acquisition path (the browser ladder, the Windows profiles
\* and their WebView fallback), whenever a scrape returns a result, the offer
\* whose price is reported has Mint, Language and Edition equal to the
\* requested quality, language and edition.
C2_ReturnedOfferHasRequestedTriple ==
    Returned => HasTriple(card)

ProfileRank(name) ==
    CASE name = "default" -> 1
      [] name = "secure" -> 1
      [] name = "permissive" -> 2
      [] name = "minimal" -> 3

\* C8: attempts are made in ladder order and the first hit ends the ladder:
\* profiles in the order secure, permissive, minimal; within a profile no
\* shallow attempt after an expanded one, and a shallow attempt before every
\* expanded one; every attempt but the last has returned a miss; after a hit
\* no attempt is started.
C8_LadderOrderFirstHitStops ==
    /\ \A i, j \in 1..Len(attempts) :
           i < j =>
               /\ ProfileRank(attempts[i].profile)
                      <= ProfileRank(attempts[j].profile)
               /\ attempts[i].profile = attempts[j].profile
                      => ~(attempts[i].load /\ ~attempts[j].load)
               /\ ~attempts[i].hit
    /\ \A j \in 1..Len(attempts) :
           attempts[j].load =>
               \E i \in 1..(j - 1) :
                   /\ attempts[i].profile = attempts[j].profile
                   /\ ~attempts[i].load
    /\ Hit => ladderPc \in {"scraped", "done"} /\ ~ENABLED LaunchLoop

\* C8 witness: the secure profile missed at both depths, the permissive
\* profile hit on an expanded attempt, and the scrape has returned
C8_Witness ==
    /\ Len(attempts) = 7
    /\ attempts[1].profile = "secure"
    /\ attempts[7].profile = "permissive"
    /\ attempts[7].load
    /\ attempts[7].hit
    /\ ladderPc = "scraped"

LadderPairs ==
    (IF variant \in {"app", "standard"} THEN {"default"}
     ELSE {"secure", "permissive", "minimal"}) \X BOOLEAN

\* C9: scrapeCardInfo fails with the no-matching-offer error only after every
\* (profile, depth) pair of the ladder has been tried without a hit; the error
\* carries the requested quality, language and edition unchanged, and AddCard
\* returns its not-found error with the same three values.
C9_NoMatchOnlyAfterWholeLadder ==
    (variant # "windows" /\ err.failed /\ NoMatchPhrase \in err.phrases) =>
        /\ \A pair \in LadderPairs :
               \E i \in 1..Len(attempts) :
                   attempts[i] = [profile |-> pair[1], load |-> pair[2],
                                  hit |-> FALSE]
        /\ ~Hit
        /\ err.criteria = req
        /\ ladderPc = "done" =>
               addErr = [kind |-> "notFound", criteria |-> req]

\* C9 witness: both depths missed for a request of lightly played, French,
\* first edition, and AddCard has returned the not-found error
C9_Witness ==
    /\ ladderPc = "done"
    /\ variant = "standard"
    /\ req = [Quality |-> "LP", Language |-> "Francais", Edition |-> TRUE]
    /\ Len(attempts) = 2
    /\ NoMatchPhrase \in err.phrases
    /\ addErr.kind = "notFound"

\* C10: the two terminal failures are distinct: when the browser connected
\* under at least one configuration and no attempt found a matching offer,
\* AddCard returns the not-found error with the criteria, not the
\* browser-unavailable error; the browser-unavailable error is returned only
\* when the browser connected under no configuration.
C10_DistinctTerminalFailures ==
    (ladderPc = "done" /\ addErr.kind # "none") =>
        /\ (connected # {} /\ ~Hit) =>
               addErr = [kind |-> "notFound", criteria |-> req]
        /\ addErr.kind = "browser" => connected = {}

C12_AttemptOwnsItsSession ==
    /\ \A i \in 1..Len(usedSession), j \in 1..Len(usedSession) :
           i < j => usedSession[i] # usedSession[j]
    /\ (ladderPc = "attempt" /\ Len(usedSession) >= 1) =>
           usedSession[Len(usedSession)] \notin live

\* C15: every call of scrapeCardInfo eventually returns, a result or an
\* error, whatever the page does.
C15_EveryCallReturns == <>(ladderPc \in {"scraped", "done"})

\* C16: once the context given to OnStartup is cancelled while a scrape is
\* in flight, no browser test, attempt or fallback of that scrape is started
\* any more, and no browser session is alive after the scrape has returned.
C16_CancellationStopsTheScrape ==
    /\ cancelled => ~startedAfterCancel
    /\ ladderPc \in {"scraped", "done"} => live = {}

\* C19: once an attempt has found a matching offer, the scrape returns a
\* result and no error, and AddCard none either, whatever the enrichment
\* navigation, the heading read and the rarity and set evaluation did; the
\* result carries the price of the offer found and a set and a rarity,
\* defaults when the page gave none.
C19_EnrichmentNeverFails ==
    Hit =>
        /\ Returned
        /\ card # Nil
        /\ info.Price = found.Price /\ info.PriceNum = found.PriceNum
        /\ info.Set # "" /\ info.Rarity # ""
        /\ ladderPc = "done" => addErr = NoAddError

\* C19 witness: the enrichment navigation, the heading read and the
\* evaluation all failed after a hit, and AddCard returned without error
C19_Witness ==
    /\ Hit
    /\ enrichment = [nav |-> FALSE, name |-> <<>>, eval |-> FALSE]
    /\ info.Name = CarteInconnue
    /\ info.Set = "Set inconnu"
    /\ ladderPc = "done"
    /\ addErr = NoAddError

\* C20: the offer returned by findTheCard is never changed after its
\* creation: the offer the scrape reports at its end has the same Mint,
\* Language, Edition, Price, PriceNum, Rarity and SetName as when the
\* extraction created it.
C20_ChosenOfferIsNeverMutated ==
    (ladderPc \in {"scraped", "done"} /\ found # Nil) => card = found

\* within a profile a wait precedes every attempt after a miss and each wait
\* is longer than the one before
C28_WithinProfile ==
    variant \in {"modes", "windows"} =>
        \A k \in 2..Len(attempts) :
            attempts[k - 1].profile = attempts[k].profile =>
                /\ waits[k] > 0
                /\ waits[k] > waits[k - 1]

\* C28: in the retry ladder (scrapeWithRetries within a profile,
\* scrapeWithMultipleModes across profiles) a wait is applied before every
\* attempt after a miss and each wait is strictly longer than the wait
\* before it.
C28_WaitsEscalate ==
    variant \in {"modes", "windows"} =>
        /\ C28_WithinProfile
        /\ \A k \in 1..Len(profileWaits) : profileWaits[k] > 0
        /\ \A k \in 2..Len(profileWaits) :
               profileWaits[k] > profileWaits[k - 1]

\* Set and Rarity are those of the page when it gave them, else those of
\* the offer found, else the defaults
C32_SetAndRarityFallBack ==
    (Hit /\ Returned) =>
        /\ info.Set = IF card.SetName # "" THEN card.SetName
                      ELSE IF found.SetName # "" THEN found.SetName
                      ELSE "Set inconnu"
        /\ info.Rarity = IF card.Rarity # "" THEN card.Rarity
                         ELSE IF found.Rarity # "" THEN found.Rarity
                         ELSE "Rarete inconnue"

\* C32: the result of a scrape never has an empty display field: Name is
\* the trimmed first heading when that is not empty and "Carte inconnue"
\* otherwise, also for a heading made of spaces only; Set and Rarity come
\* from the page, else from the offer found, else are the defaults.
C32_NoEmptyDisplayField ==
    (Hit /\ Returned) =>
        /\ C32_SetAndRarityFallBack
        /\ info.Set # "" /\ info.Rarity # ""
        /\ info.Name = IF TrimSpace(enrichment.name) # <<>>
                       THEN TrimSpace(enrichment.name)
                       ELSE CarteInconnue
        /\ info.Name # <<>>

-----------------------------------------------------------------------------
(* Claims on one attempt, under SpecPage *)

StepDone(step) == \E i \in 1..Len(steps) : steps[i] = step

StepRank(step) ==
    CASE step = "navigate" -> 1
      [] step = "botcheck" -> 2
      [] step = "consent" -> 3
      [] step = "scroll" -> 4
      [] step = "detect" -> 5
      [] step = "click" -> 6
      [] step = "getInfos" -> 7
      [] step = "findTheCard" -> 8

\* C13: getPage returns an error exactly when the initial navigation has
\* failed; launchLoop then runs neither getInfos nor findTheCard and returns
\* no offer.  A failed bot-check wait, consent dismissal, scroll, load-more
\* detection or load-more click never makes getPage return an error.
C13_OnlyNavigationIsFatal ==
    /\ pageErr <=> "navigate" \in stepErrors
    /\ pageErr =>
           /\ pagePc = "returned"
           /\ steps = <<"navigate">>
           /\ pageOffer = Nil
    /\ (pagePc \in {"getInfos", "findTheCard"} \/ StepDone("getInfos")) =>
           ~pageErr

\* C13 witness: the bot-check wait, every consent selector, the scroll and
\* the load-more click failed, and the attempt still returned an offer
C13_Witness ==
    /\ pagePc = "returned"
    /\ stepErrors = {"botcheck", "consent", "scroll", "click"}
    /\ selector = CookieSelectorCount
    /\ ~pageErr
    /\ pageOffer # Nil

\* C14: the steps of an attempt happen in the order navigation, bot-check
\* wait, consent dismissal, (scroll, load-more detection, load-more click),
\* extraction, matching, each at most once and none before the one before
\* it has ended; extraction runs only after a navigation that worked; the
\* scroll and the load-more detection are performed exactly when moreLoad is
\* true, and the load-more click only then.
C14_StepsInOrder ==
    /\ \A i \in 1..Len(steps), j \in 1..Len(steps) :
           i < j => StepRank(steps[i]) < StepRank(steps[j])
    /\ \A i \in 1..Len(steps) :
           /\ steps[i] = "navigate" => i = 1
           /\ steps[i] = "botcheck" => i = 2
           /\ steps[i] = "consent" => i = 3
           /\ steps[i] = "findTheCard" => steps[i - 1] = "getInfos"
    /\ (StepDone("getInfos") \/ pagePc = "getInfos") =>
           /\ StepDone("navigate") /\ "navigate" \notin stepErrors
           /\ StepDone("botcheck")
           /\ StepDone("consent")
           /\ moreLoad <=> StepDone("scroll")
           /\ moreLoad <=> StepDone("detect")
    /\ (StepDone("scroll") \/ StepDone("detect") \/ StepDone("click")) =>
           moreLoad

\* C14 witness: an attempt with moreLoad that went through every step
C14_Witness ==
    /\ moreLoad
    /\ pagePc = "returned"
    /\ steps = <<"navigate", "botcheck", "consent", "scroll", "detect",
                 "click", "getInfos", "findTheCard">>

\* the selectors are tried in order, a click that works is the last thing
\* the loop does, and the loop never makes getPage fail
C26_FirstSuccessWins ==
    /\ consentTried \subseteq 1..selector
    /\ clickedSelector # 0 =>
           /\ selector = clickedSelector
           /\ StepDone("consent")
           /\ "consent" \notin stepErrors
    /\ StepDone("consent") => ~pageErr

\* C26: in getPage the consent selectors are tried in priority order until
\* the first click that works, after which none is tried; a banner that only
\* a later selector matches is still reached by that selector's click; when
\* no selector matches, getPage goes on.
C26_LaterSelectorIsReached ==
    /\ C26_FirstSuccessWins
    /\ (StepDone("consent") /\ banner # 0) => banner \in consentTried

-----------------------------------------------------------------------------
(* Claims on the WebView cascade, under SpecWeb *)

\* C17: in extractOffersFromWebView a strategy (a table selector, the direct
\* price scan, the universal scan) runs only if every strategy that ran
\* before it returned no offer, and the list returned is the list of one
\* strategy, the last that ran, never a merge of several.
C17_OneStrategyFeedsTheResult ==
    /\ \A i \in 1..Len(ran) : \A h \in 1..(i - 1) : ran[h].offers = <<>>
    /\ \A i \in 1..Len(ran) : \A h \in 1..(i - 1) :
           /\ ran[i].strategy = "table" => ran[h].strategy = "table"
           /\ ran[i].strategy = "direct" => ran[h].strategy = "table"
    /\ (ran # <<>> /\ webPc # "tables") => webOffers = ran[Len(ran)].offers
    /\ webPc = "returned" =>
           webOffers = extractOffersFromWebView(webTables, webDirect,
                                                webVisible)

\* C17 witness: the only table has no offer, the direct scan finds one, and
\* the universal scan, which would find one too, does not run
C17_Witness ==
    /\ webPc = "returned"
    /\ webTables = <<<<>>>>
    /\ webDirect # <<>>
    /\ webVisible # <<>>
    /\ Len(ran) = 2
    /\ ran[2].strategy = "direct"
    /\ webOffers = webDirect

-----------------------------------------------------------------------------
(* Claims on the card store, under SpecStore *)

\* C21: RescrapAllCards takes the cards it read at its start one after the
\* other in id order, with at most one scrape in flight, and goes on after a
\* scrape or save failure: when it returns, every card read has been
\* attempted exactly once.
C21_RescrapIsSequential ==
    /\ inFlight \in {0, 1}
    /\ inFlight = 1 <=> rPc = "scraping"
    /\ \A i \in 1..Len(cardsRead), j \in 1..Len(cardsRead) :
           i < j => cardsRead[i].ID < cardsRead[j].ID
    /\ Len(rescrapLog) <= Len(cardsRead)
    /\ \A k \in 1..Len(rescrapLog) : rescrapLog[k].id = cardsRead[k].ID
    /\ rPc = "done" =>
           /\ Len(rescrapLog) = Len(cardsRead)
           /\ stats.total = Len(cardsRead)
           /\ stats.updated + stats.errors = stats.total

\* C21 witness: of two cards the scrape of the first failed and the second
\* was updated all the same
C21_Witness ==
    /\ rPc = "done"
    /\ Len(cardsRead) = 2
    /\ rescrapLog[1].outcome = "scrape failed"
    /\ rescrapLog[2].outcome = "updated"
    /\ stats.total = 2 /\ stats.updated = 1 /\ stats.errors = 1

\* C23: the TotalOffers stored with a card by AddCard is the number of
\* offers the successful attempt extracted from the page.
C23_TotalOffersIsTheOfferCount ==
    (op.call = "AddCard" /\ op.result = "saved") =>
        store[Len(store)].TotalOffers = op.extracted

\* C24: AddCard for a URL already stored with the requested type returns an
\* error and changes nothing: no scrape, no new row, no field of any stored
\* card changed, last_updated included.
C24_DuplicateHasNoEffect ==
    [][(op'.call = "AddCard" /\ op'.result = "duplicate") =>
           /\ store' = store
           /\ nextId' = nextId
           /\ ~op'.scraped]_vars

\* C24 witness: a duplicate AddCard at a time later than the last write of
\* the stored cards
C24_Witness ==
    /\ op.call = "AddCard"
    /\ op.result = "duplicate"
    /\ Len(store) >= 1
    /\ \A i \in 1..Len(store) : store[i].LastUpdated < now

\* C25: AddCard for a URL stored with the other type moves the card without
\* scraping: the store has as many cards as before, one card has changed and
\* now has the requested type, and its name, price, price_num, quality,
\* language and edition are as before.
C25_MoveKeepsTheCard ==
    [][(/\ op'.call = "AddCard" /\ op'.result = "moved"
        /\ (op' # op \/ store' # store)) =>
           /\ ~op'.scraped
           /\ Len(store') = Len(store)
           /\ \E i \in 1..Len(store) :
                  /\ store[i].Type # op'.type
                  /\ store'[i].Type = op'.type
                  /\ store'[i].ID = store[i].ID
                  /\ store'[i].CardURL = store[i].CardURL
                  /\ store'[i].Name = store[i].Name
                  /\ store'[i].Price = store[i].Price
                  /\ store'[i].PriceNum = store[i].PriceNum
                  /\ store'[i].Quality = store[i].Quality
                  /\ store'[i].Language = store[i].Language
                  /\ store'[i].Edition = store[i].Edition
                  /\ \A j \in 1..Len(store) : j # i => store'[j] = store[j]]_vars

\* C25 witness: a card stored with the criteria LP, Francais, first edition
\* has been moved by an AddCard
C25_Witness ==
    /\ op.call = "AddCard"
    /\ op.result = "moved"
    /\ \E i \in 1..Len(store) :
           /\ store[i].Type = op.type
           /\ store[i].Quality = "LP"
           /\ store[i].LastUpdated = now
           /\ now > 0

\* the cards of rescrapLog whose outcome is one of those given
C34_Cards(outcomes) ==
    {k \in 1..Len(rescrapLog) : rescrapLog[k].outcome \in outcomes}

C36_FailedAddCardChangesNothing ==
    [][(/\ op'.call = "AddCard"
        /\ op'.result \in {"scrape failed", "save failed", "move failed"}) =>
           /\ store' = store
           /\ nextId' = nextId]_vars

\* C36 witness: the INSERT of an AddCard failed on a store that holds a
\* card already
C36_Witness ==
    /\ op.call = "AddCard"
    /\ op.result = "save failed"
    /\ op.scraped
    /\ Len(store) = 1

-----------------------------------------------------------------------------
(* Claims on the fallback ladder, under SpecFallback *)

\* C22: findBestOfferWithFallback returns the offer of the earliest rung
\* that some offer satisfies: (1) NM, Francais, standard edition, (2) NM and
\* Francais, (3) NM, (4) the cheapest offer of the list; it logs the rung
\* and returns nil exactly when the list is empty.
C22_FallbackLadderIsOrdered ==
    fbPc = "returned" =>
        /\ fbResult.offer = Nil <=> fbOffers = <<>>
        /\ fbResult.rung = 0 <=> fbOffers = <<>>
        /\ fbResult.rung \in 1..3 => fbResult.offer.Mint = "NM"
        /\ fbResult.rung \in 1..2 => fbResult.offer.Language = "Francais"
        /\ fbResult.rung = 1 => ~fbResult.offer.Edition
        /\ fbResult.rung = 4 =>
               \A i \in 1..Len(fbOffers) :
                   ~Less(fbOffers[i].PriceNum, fbResult.offer.PriceNum)

-----------------------------------------------------------------------------
(* Claims on the bot-check wait, under FairCloudflare *)

\* what waitForCloudflare has returned, from the page it polled
C27_Returned ==
    IF failsAt <= CloudflarePolls /\ failsAt <= clearsAt
    THEN /\ cfResult = "error"
         /\ polls = failsAt
         /\ cfSlept = failsAt - 1
    ELSE IF clearsAt <= CloudflarePolls
    THEN /\ cfResult = "ok"
         /\ polls = clearsAt
         /\ cfSlept = clearsAt - 1
    ELSE /\ cfResult = "ok"
         /\ polls = CloudflarePolls
         /\ cfSlept = CloudflarePolls

\* C27: waitForCloudflare always returns; it reads the title at most 20
\* times, one second apart, returns success at the first poll whose title is
\* free of the challenge marker, and returns success as well when the marker
\* is still there after the last poll.
C27_BotCheckWaitEnds ==
    /\ [](/\ polls <= CloudflarePolls
          /\ cfSlept <= polls
          /\ cfPc = "returned" => C27_Returned)
    /\ <>(cfPc = "returned")

\* C27 witness: the challenge never cleared, the wait slept after each of
\* its 20 polls and returned success
C27_Witness ==
    /\ cfPc = "returned"
    /\ clearsAt = CloudflarePolls + 1
    /\ polls = CloudflarePolls
    /\ cfSlept = CloudflarePolls
    /\ cfResult = "ok"

-----------------------------------------------------------------------------
(* Claims on the text scans, under SpecScan *)

\* no two offers of the list have the same PriceNum
C30_Unique(offers) ==
    \A i \in 1..Len(offers), j \in 1..Len(offers) :
        i # j => offers[i].PriceNum # offers[j].PriceNum

\* C30: for every page extractAllVisiblePrices returns at most 10 offers and
\* extractPricesDirectly at most 3, and no two offers of a returned list
\* have the same PriceNum.
C30_ScansAreCappedAndUnique ==
    /\ Len(visibleOffers) <= 10
    /\ Len(directOffers) <= 3
    /\ C30_Unique(visibleOffers)
    /\ C30_Unique(directOffers)

\* C30 witness: a page showing more than ten amounts, each of them twice;
\* both scans returned and both caps were reached
C30_Witness ==
    /\ scanPc = "returned"
    /\ Cardinality({scanPrices[i] : i \in 1..Len(scanPrices)} \ {0}) > 10
    /\ \E i \in 1..Len(scanPrices), j \in 1..Len(scanPrices) :
           i < j /\ scanPrices[i] = scanPrices[j] /\ scanPrices[i] > 0
    /\ Len(visibleOffers) = 10
    /\ Len(directOffers) = 3

-----------------------------------------------------------------------------
(* Claims on the keyword inference, under SpecInfer *)

\* a keyword of the dictionary occurs in the text
C31_HasKeyword(dictionary) ==
    \E e \in dictionary : ContainsText(ToLower(context), e.keyword)

\* the empty string is returned exactly when no keyword occurs
C31_EmptyIffNoKeyword ==
    inferPc = "returned" =>
        /\ qualityOut = "" <=> ~C31_HasKeyword(qualityMap)
        /\ qualityAgain = "" <=> ~C31_HasKeyword(qualityMap)
        /\ languageOut = "" <=> ~C31_HasKeyword(languageMap)
        /\ languageAgain = "" <=> ~C31_HasKeyword(languageMap)

\* C31: extractQualityFromContext and extractLanguageFromContext return the
\* empty string exactly when no keyword of their dictionary occurs in the
\* text, and two calls on the same text return the same value, also when
\* keywords of several grades or languages occur in it.
C31_InferenceIsDeterministic ==
    inferPc = "returned" =>
        /\ C31_EmptyIffNoKeyword
        /\ qualityAgain = qualityOut
        /\ languageAgain = languageOut

-----------------------------------------------------------------------------
(* Claims on GetStats, under SpecStats *)

\* the step of GetStats that returns the map
C37_Returns ==
    /\ gsPc = "wishlist"
    /\ gsPc' = "none"
    /\ gsOut' = GetStatsMap(gsFirst, CountOfType(store, "wishlist"))

\* the two counts of the map always add up to its total
C37_PartitionsAddUp ==
    /\ gsOut.collection_count + gsOut.wishlist_count = gsOut.total_cards
    /\ gsOut.total_value = AddDec(gsOut.collection_value, gsOut.wishlist_value)

\* C37: after any sequence of AddCard, MoveCard and DeleteCard calls, the
\* map GetStats returns agrees with the table: total_cards is the number of
\* stored cards, collection_count + wishlist_count is total_cards, and
\* total_value is what Sumprice returns, also after a MoveCard to a type
\* other than "collection" and "wishlist". Stated of a GetStats between
\* whose two queries nothing was written.
C37_GetStatsMatchesTheStore ==
    [][(C37_Returns /\ gsChanged = "no") =>
           /\ gsOut'.total_cards = Len(store)
           /\ gsOut'.collection_count + gsOut'.wishlist_count
                  = gsOut'.total_cards
           /\ gsOut'.total_value = Sumprice(store)]_vars

\* C38: a GetStats between whose two queries cards were only moved from
\* collection to wishlist or back, in a table that holds no other type,
\* returns as total_cards the number of stored cards: no card is counted
\* in both partitions or in neither.
C38_EveryCardCountedOnce ==
    [][(C37_Returns /\ gsChanged = "moved") =>
           gsOut'.total_cards = Len(store)]_vars

-----------------------------------------------------------------------------
(* Claims on the price refresh, under SpecRefresh *)

\* C33: a price refresh by UpdateCardPriceFixed scrapes the card's URL with
\* the quality, language and edition stored on the card, and the offer it
\* selects has the criteria the card was added with.
C33_RefreshUsesTheCardCriteria ==
    \A i \in 1..Len(store) :
        store[i].ID = refresh.id =>
            /\ refresh.used = RefreshRequestOfCard(store[i])
            /\ refresh.chosen = RefreshRequestOfCard(store[i])

-----------------------------------------------------------------------------
(* Claims on AddCard calls side by side, under SpecCalls *)

\* C35: whatever the interleaving of AddCard, MoveCard, DeleteCard and
\* RescrapAllCards, no two stored cards have the same card_url; of two
\* AddCard calls that both found the URL not stored, at most one inserts
\* its card and the other one returns an error.
C35_UrlsAreUnique ==
    \A i, j \in 1..Len(store) :
        i # j => store[i].CardURL # store[j].CardURL

\* both calls passed the lookup of the same URL, one inserted its card and
\* the INSERT of the other one failed on the UNIQUE column
C35_Witness ==
    /\ calls # <<>>
    /\ calls["first"].pc = "done"
    /\ calls["first"].result = "saved"
    /\ calls["second"].pc = "done"
    /\ calls["second"].result = "not unique"
    /\ calls["second"].url = calls["first"].url
    /\ Len(store) = 1

====
